---- MODULE Spec2Model ----
(***************************************************************************)
(* Model of the ADC plug-in's characterization-model predictor             *)
(* (model.py: get_energy, get_area), its tolerant Pareto filter            *)
(* (get_pareto) and the model builder's validation / output steps          *)
(* (build_model).                                                          *)
(*                                                                         *)
(* Units.  The code works on natural-log-scaled quantities and on FOMs in  *)
(* dB.  The model draws its inputs from the lattice on which all of the    *)
(* code's arithmetic is exact:                                             *)
(*   - a log-scaled quantity (frequency, tech node, energy, area, the      *)
(*     intercepts and residuals) is an integer number of ln(2);            *)
(*   - a FOM or an SNDR is an integer number of 10*log10(2) dB, plus a     *)
(*     count of 10*log10(1.5) dB terms;                                    *)
(*   - a resolution is an integer number of half bits (r2 = 2 * bits);     *)
(*   - slopes are integers.                                                *)
(* With these, math.exp(x) is 2^x and 10 ** (d / 10) is 2^d, and a result  *)
(* is the number (p / q) * 2^e, kept as the record [p, q, e].              *)
(***************************************************************************)
EXTENDS Integers, Sequences, FiniteSets, TLC

VARIABLES
    model,      \* the loaded characterization model (the dict read from model.yaml)
    params,     \* the caller's parameter dict, as it is after the last call
    ret,        \* the last predictor call: its inputs and its outcome
    prev,       \* an earlier predictor call the caller kept (model.py:263-275)
    pareto,     \* the get_pareto call: its arguments and what it returned
    build,      \* the build_model run: its input, position, error and written files
    adc,        \* the optimizer: the Model object, the ADCRequest and the last call
    refresh     \* the refresh_xls call: the survey directory, the interval, the outcome

vars == <<model, params, ret, prev, pareto, build, adc, refresh>>

predictVars == <<model, params, ret, prev>>

----------------------------------------------------------------------------
\* headers.py: the keys of parameter sets and of the model

FREQ == "frequency (Hz)"
TECH == "tech node (nm)"
ENOB == "number of bits"
ENRG == "energy (pJ/op)"
INTERCEPT == "intercept"
DESIGN_PARAMS == {FREQ, TECH, ENOB}
AREA_CALCULATE_PARAMS == {TECH, FREQ, ENRG}

----------------------------------------------------------------------------
\* Bounds of the model

MaxLogFreq == 3     \* log-frequencies 0..MaxLogFreq
MaxTable == 5       \* longest max_by_enob table
MaxHalfBits == 9    \* resolutions up to MaxHalfBits / 2 bits
MaxPoints == 3      \* longest series given to get_pareto
MaxInterior == 2    \* allow_interior_points 0..MaxInterior
MaxRows == 2        \* most rows of a survey given to build_model
MaxDirectCalls == 2 \* most set_design_params calls made on a Model directly
MaxChannels == 8    \* channel counts 1..MaxChannels of the requests whose candidates are listed
MaxShare == 4       \* sharing options 1..MaxShare of those requests
MaxAge == 3         \* saved files are 0..MaxAge days old
MaxFiles == 3       \* most files in the survey directory
MaxIntervalDays == 2 \* refresh intervals 0..MaxIntervalDays days

----------------------------------------------------------------------------
\* Arithmetic helpers

Min(a, b) == IF a <= b THEN a ELSE b

Max(a, b) == IF a >= b THEN a ELSE b

\* math.ceil of a resolution given in half bits
Ceil(r2) == (r2 + 1) \div 2

RECURSIVE IPow(_, _)
IPow(b, n) == IF n <= 0 THEN 1 ELSE b * IPow(b, n - 1)

\* the number (p / q) * 2^e
Val(p, q, e) == [p |-> p, q |-> q, e |-> e]

NoVal == Val(0, 1, 0)

VMul(a, b) == Val(a.p * b.p, a.q * b.q, a.e + b.e)

VPos(a) == a.p > 0 /\ a.q > 0

\* a <= b, for q > 0
VLe(a, b) ==
    LET m == Min(a.e, b.e)
    IN  a.p * b.q * IPow(2, a.e - m) <= b.p * a.q * IPow(2, b.e - m)

\* faulty variant of Exp: the sum returned without math.exp
ExpNoExp(x) == Val(x, 1, 0)

\* math.exp of x * ln(2)
Exp(x) == Val(1, 1, x)

\* math.exp(s * math.log(bits)) for bits = r2 / 2 > 0: r2^s * 2^(-s)
ExpSlopeLog(s, r2) ==
    IF s >= 0 THEN Val(IPow(r2, s), 1, 0 - s)
    ELSE Val(1, IPow(r2, 0 - s), 0 - s)

----------------------------------------------------------------------------
\* headers.py and model.py: the conversions

\* bits2sndr: bits * 20 * log10(2) + 10 * log10(1.5), as
\* db2 * 10*log10(2) + k15 * 10*log10(1.5) with db2 = 2 * bits = r2
bits2sndr(r2) == [db2 |-> r2, k15 |-> 1]

\* foms_sndr2energy: 1 / ((10 ** ((foms - sndr) / 10)) * 2)
\*   10 ** ((foms - sndr) / 10) = 2^(foms - db2) / 1.5^k15
foms_sndr2energy(foms, sndr) ==
    Val(IPow(3, sndr.k15), IPow(2, sndr.k15), (sndr.db2 - foms) - 1)

----------------------------------------------------------------------------
\* Python containers

\* params = params.copy(); params[INTERCEPT] = 1: the callee's local dict
LocalParams(p) ==
    [k \in (DOMAIN p) \cup {INTERCEPT} |-> IF k = INTERCEPT THEN 1 ELSE p[k]]

\* faulty variant of CallerParamsAfter: the intercept written without the copy
CallerParamsNoCopy(p) == LocalParams(p)

\* the caller's dict after the call: the write went to the copy
CallerParamsAfter(p) == p

\* list[i] with a 0-based Python index: in range for -len <= i < len
IndexInRange(table, i) == (0 - Len(table)) <= i /\ i < Len(table)

ListItem(table, i) == IF i >= 0 THEN table[i + 1] ELSE table[Len(table) + i + 1]

----------------------------------------------------------------------------
\* model.py get_area

\* faulty variant of AreaKeysMatch: the two key sets required to be equal
AreaKeysMatchExactly(local, area) == DOMAIN local = DOMAIN area

\* the assertion of line 22: every key of model[AREA] is in the local params
AreaKeysMatch(local, area) == \A k \in DOMAIN area : k \in DOMAIN local

RECURSIVE SumOver(_, _, _)
SumOver(keys, local, area) ==
    IF keys = {} THEN 0
    ELSE LET k == CHOOSE x \in keys : TRUE
         IN  local[k] * area[k] + SumOver(keys \ {k}, local, area)

\* the outcome of get_area(params, model)
get_area(p, m) ==
    LET local == LocalParams(p)
    IN  IF ~AreaKeysMatch(local, m.area)
        THEN [status |-> "AssertionError", stage |-> "keys", value |-> NoVal,
              warnings |-> 0, idx |-> 0, line |-> 0, foms |-> 0]
        ELSE [status |-> "ok", stage |-> "done",
              value |-> Exp(SumOver(DOMAIN m.area, local, m.area)),
              warnings |-> 0, idx |-> 0, line |-> 0, foms |-> 0]

----------------------------------------------------------------------------
\* model.py get_energy

\* faulty variant of RangeCheckPasses: the comparison strict
RangeCheckStrict(f, fmax, allow) == allow \/ f < fmax

\* lines 40-41: the range assertion is made only without extrapolation
RangeCheckPasses(f, fmax, allow) == allow \/ f <= fmax

\* faulty variant of WarnsOnExtrapolation: a warning at freq.max itself
WarnsAtBoundary(f, fmax, allow) == allow /\ f >= fmax

\* lines 42-43: logger.warning on the extrapolation branch
WarnsOnExtrapolation(f, fmax, allow) == allow /\ f > fmax

\* faulty variant of FomsMaxIndex: clamped to len instead of len - 1
FomsMaxIndexOffByOne(r2, len) == Max(Min(Ceil(r2), len), 0)

\* line 48: max(min(math.ceil(params[ENOB]), len(foms_max_by_enob) - 1), 0)
FomsMaxIndex(r2, len) == Max(Min(Ceil(r2), len - 1), 0)

\* faulty variant of CapFoms: max for min
CapFomsMax(foms, foms_max) == Max(foms, foms_max)

\* line 50: foms = min(foms, foms_max)
CapFoms(foms, foms_max) == Min(foms, foms_max)

\* faulty variant of ModelAfterEnergy: the capped FOM stored through the alias
\* foms_max_by_enob, that is into the model's own list
ModelAfterEnergyWriteBack(m, out) ==
    IF out.stage \in {"log", "done"} /\ out.idx >= 0
    THEN [m EXCEPT !.max_by_enob[out.idx + 1] = out.foms]
    ELSE m

\* lines 46-50: foms_max_by_enob aliases the model's list and is only read
ModelAfterEnergy(m, out) == m

\* the outcome of get_energy(params, model, allow_extrapolation)
get_energy(p, m, allow) ==
    LET local == LocalParams(p)
        warn  == IF WarnsOnExtrapolation(local[FREQ], m.freq_max, allow) THEN 1 ELSE 0
        line  == local[INTERCEPT] * m.foms_intercept + local[FREQ] * m.foms_freq
        i     == FomsMaxIndex(local[ENOB], Len(m.max_by_enob))
    IN  IF ~RangeCheckPasses(local[FREQ], m.freq_max, allow)
        THEN [status |-> "AssertionError", stage |-> "range", value |-> NoVal,
              warnings |-> 0, idx |-> 0, line |-> 0, foms |-> 0]
        ELSE IF ~IndexInRange(m.max_by_enob, i)
        THEN [status |-> "IndexError", stage |-> "index", value |-> NoVal,
              warnings |-> warn, idx |-> i, line |-> line, foms |-> 0]
        ELSE LET foms   == CapFoms(line, ListItem(m.max_by_enob, i))
                 energy == foms_sndr2energy(foms, bits2sndr(local[ENOB]))
             IN  IF local[ENOB] <= 0
                 THEN \* math.log(params[ENOB]) raises ValueError
                      [status |-> "ValueError", stage |-> "log", value |-> NoVal,
                       warnings |-> warn, idx |-> i, line |-> line, foms |-> foms]
                 ELSE [status |-> "ok", stage |-> "done",
                       value |-> VMul(energy,
                                  VMul(Exp(m.tech_intercept
                                           + m.tech_slope * local[TECH]
                                           + m.enrg_residual),
                                       ExpSlopeLog(m.enob_slope, local[ENOB]))),
                       warnings |-> warn, idx |-> i, line |-> line, foms |-> foms]

----------------------------------------------------------------------------
\* The inputs: models as build_model writes them, and parameter dicts

\* foms_max_by_enob = [intercept + coeffs[0] * x for x in arange(...)] (line 154)
EnobTable(len, c0, c1) == [i \in 1..len |-> c0 + c1 * (i - 1)]

AreaCoeffs(tech, freq, enrg, icpt) ==
    [k \in AREA_CALCULATE_PARAMS \cup {INTERCEPT} |->
        CASE k = TECH -> tech
          [] k = FREQ -> freq
          [] k = ENRG -> enrg
          [] OTHER    -> icpt]

\* the model dict of lines 200-228, with one of three coefficient sets
MkModel(fmax, slope, len, c1, k) ==
    [freq_max       |-> fmax,
     foms_freq      |-> slope,
     foms_intercept |-> 5,
     max_by_enob    |-> EnobTable(len, 1, c1),
     tech_intercept |-> CASE k = 0 -> 0 [] k = 1 -> 1 [] OTHER -> 0 - 1,
     tech_slope     |-> CASE k = 0 -> 0 [] k = 1 -> 0 - 1 [] OTHER -> 1,
     enob_slope     |-> CASE k = 0 -> 0 [] k = 1 -> 0 - 1 [] OTHER -> 1,
     enrg_residual  |-> CASE k = 0 -> 0 [] k = 1 -> 1 [] OTHER -> 0,
     area           |-> CASE k = 0 -> AreaCoeffs(1, 0, 0, 0)
                          [] k = 1 -> AreaCoeffs(1, 1, 0 - 1, 0 - 2)
                          [] OTHER -> AreaCoeffs(0 - 1, 0, 1, 1)]

ModelFamily(lens, c1s, ks) ==
    {MkModel(fmax, slope, len, c1, k) :
        fmax \in 1..(MaxLogFreq - 1), slope \in {0 - 1, 0, 1},
        len \in lens, c1 \in c1s, k \in ks}

Models == ModelFamily({2, MaxTable}, {0, 1}, {0, 1, 2})

SeqModels == ModelFamily({MaxTable}, {1}, {1, 2})

LogFreqs == 0..MaxLogFreq

TechNodes == {1, 2}

\* resolutions in half bits: -1.5, 0.5, and 4 .. MaxHalfBits / 2
Resolutions == {0 - 3, 1} \cup (8..MaxHalfBits)

ParamDict(keys, f, t, r2, g) ==
    [k \in keys |->
        CASE k = FREQ -> f
          [] k = TECH -> t
          [] k = ENOB -> r2
          [] OTHER    -> g]

ParamDicts(keysets, r2s) ==
    {ParamDict(keys, f, t, r2, 1) :
        keys \in keysets, f \in LogFreqs, t \in TechNodes, r2 \in r2s}

\* the design parameters alone; with the energy added (model.py:270, 285);
\* exactly the area model's keys
ParamSets ==
    ParamDicts({DESIGN_PARAMS, DESIGN_PARAMS \cup {ENRG}, AREA_CALCULATE_PARAMS},
               Resolutions)

SeqParamSets == ParamDicts({DESIGN_PARAMS \cup {ENRG}}, 8..MaxHalfBits)

----------------------------------------------------------------------------
\* model.py get_pareto

\* faulty variant of more_value: the comparisons strict
more_valueStrict(a, b, pos) == IF pos THEN a > b ELSE a < b

\* more_value(a, b, pos) (lines 92-93)
more_value(a, b, pos) == IF pos THEN a >= b ELSE a <= b

\* sum(more_value(x[i], x[j], ...) or more_value(y[i], y[j], ...) for j ...)
\* (lines 99-102), over the positions 1..Len(x)
RECURSIVE CountMoreValue(_, _, _, _, _, _)
CountMoreValue(x, y, xpos, ypos, i, j) ==
    IF j > Len(x) THEN 0
    ELSE (IF more_value(x[i], x[j], xpos) \/ more_value(y[i], y[j], ypos)
          THEN 1 ELSE 0)
         + CountMoreValue(x, y, xpos, ypos, i, j + 1)

\* the loop of lines 95-105: chosen, from position i on
RECURSIVE ChosenFrom(_, _, _, _, _, _)
ChosenFrom(x, y, xpos, ypos, k, i) ==
    IF i > Len(x) THEN <<>>
    ELSE (IF Len(x) - CountMoreValue(x, y, xpos, ypos, i, 1) < k
          THEN <<i>> ELSE <<>>)
         \o ChosenFrom(x, y, xpos, ypos, k, i + 1)

\* the outcome of get_pareto(x, y, x_positive, y_positive, allow_interior_points),
\* for series indexed 0..len-1 as build_model passes them (reset_index, lines
\* 159-160); chosen holds the positions kept, counted from 1
get_pareto(x, y, xpos, ypos, k) ==
    IF Len(x) # Len(y)
    THEN [status |-> "AssertionError", chosen |-> <<>>]
    ELSE [status |-> "ok", chosen |-> ChosenFrom(x, y, xpos, ypos, k, 1)]

NoPareto ==
    [pc |-> "idle", x |-> <<>>, y |-> <<>>, xpos |-> TRUE, ypos |-> TRUE, k |-> 0,
     status |-> "none", chosen |-> <<>>]

\* the values of a series: three levels give chains of two dominators
Coords == {0, 1, 2}

Series(n) == [1..n -> Coords]

\* the series pairs given: of one length, or y one short
SeriesPairs ==
    UNION {Series(n) \X (Series(n) \cup (IF n > 0 THEN Series(n - 1) ELSE {})) :
            n \in 0..MaxPoints}

----------------------------------------------------------------------------
\* model.py build_model: validation, fits and the files it writes

FOMS == "FOMS_hf [dB]"
AREA == "area (um^2)"
ALL_PARAMS == DESIGN_PARAMS \cup {AREA, ENRG, FOMS}
ENERGY_CORRELATION == "energy_correlation.csv"
OUTPUT_FILE == "output_file"

\* faulty variant of RowValueOk: a string let through
RowValueOkLoose(kind) == kind \in {"float", "str"}

\* isinstance(row[c], float) (lines 123-125), on the kind of value a cell holds
RowValueOk(kind) == kind = "float"

\* lines 119-120: the first assertion fails for a missing column
ColumnsOk(data) == \A c \in ALL_PARAMS : c \in data.columns

\* lines 121-125: the second fails for a cell that is no float
RowsOk(data) ==
    \A i \in 1..Len(data.rows) : \A c \in ALL_PARAMS : RowValueOk(data.rows[i][c])

\* A survey is held run-length encoded: rows[i] gives the kinds of the cells
\* of a row, vals[i] the values the fits read from it, and count[i] how many
\* consecutive rows of the survey are alike in both.
NoData == [columns |-> {}, rows |-> <<>>, count |-> <<>>, vals |-> <<>>]

\* what a run has fitted so far: the line it has reached, the rows left after
\* dropna, the rows given to get_pareto, its allow_interior_points, the
\* positions it chose, the length of max_by_enob, the table index used for
\* each row, freq.max, and the area regression before and after the shift
NoFit ==
    [line |-> 0, usable |-> <<>>, kept |-> <<>>, k |-> 0, chosen |-> <<>>,
     table_len |-> 0, idx |-> <<>>, freq_max |-> 0,
     ar_residual |-> <<>>, ar_fitted10 |-> 0, ar_intercept10 |-> 0]

NoBuild ==
    [pc |-> "idle", data |-> NoData, output_ok |-> TRUE, err |-> "none",
     files |-> {}, fit |-> NoFit]

ValueKinds == {"float", "int", "str"}

\* a row of floats, but for at most one cell
RowsOver(columns) ==
    {[c \in columns |-> "float"]}
    \cup {[c \in columns |-> IF c = bad THEN kind ELSE "float"] :
                bad \in columns, kind \in ValueKinds \ {"float"}}

\* the values of a row that no fit reads: the run fails before them
NoVals == [freq |-> 0, enob2 |-> 8, fadj |-> 0, nan |-> FALSE]

\* the surveys that test the validation: every column or all but one, up to
\* MaxRows rows
KindSurveys ==
    UNION {
        UNION {{[columns |-> columns, rows |-> rows,
                 count |-> [i \in 1..n |-> 1], vals |-> [i \in 1..n |-> NoVals]] :
                    rows \in [1..n -> RowsOver(columns)]} : n \in 0..MaxRows} :
        columns \in {ALL_PARAMS} \cup {ALL_PARAMS \ {c} : c \in ALL_PARAMS}}

\* the resolutions of the rows, in half bits: 4 and 4.5 bits
RowHalfBits == {8, 9}

\* the values of a row once log-scaled (lines 128-130): the log-frequency, the
\* resolution in half bits, the FOMS less its tech-node adjustment
\* (FOMS_ADJUSTED, lines 136-139; the rows of a survey share one tech node, so
\* the adjustment is one shift for all), and whether the FOMS cell holds NaN,
\* which is a float (lines 123-125) that dropna removes (line 141)
RowVals == [freq : {1, MaxLogFreq}, enob2 : RowHalfBits, fadj : {0, 1}, nan : BOOLEAN]

\* how many rows of a survey are alike
Copies == {1, 11}

\* the surveys that pass the validation: up to MaxRows runs of like rows
ValueSurveys ==
    UNION {{[columns |-> ALL_PARAMS, rows |-> [i \in 1..n |-> [c \in ALL_PARAMS |-> "float"]],
             count |-> count, vals |-> vals] :
                count \in [1..n -> Copies], vals \in [1..n -> RowVals]} : n \in 0..MaxRows}

Surveys == KindSurveys \cup ValueSurveys

\* Python's round(num / den) for den > 0: to the nearest integer, a half to
\* the even one
Round(num, den) ==
    LET q == num \div den
        r == num % den
    IN  IF 2 * r < den THEN q
        ELSE IF 2 * r > den THEN q + 1
        ELSE IF q % 2 = 0 THEN q ELSE q + 1

RECURSIVE Repeat(_, _)
Repeat(v, n) == IF n <= 0 THEN <<>> ELSE <<v>> \o Repeat(v, n - 1)

RECURSIVE RowsFrom(_, _)
RowsFrom(data, i) ==
    IF i > Len(data.rows) THEN <<>>
    ELSE Repeat(data.vals[i], data.count[i]) \o RowsFrom(data, i + 1)

\* logscale_data (lines 128-130): the rows of the survey, one after the other
LogscaleRows(data) == RowsFrom(data, 1)

\* logscale_data.dropna().reset_index(drop=True) (line 141)
DropNa(rows) == SelectSeq(rows, LAMBDA r : ~r.nan)

\* the columns of the rows
FreqOf(rows) == [i \in 1..Len(rows) |-> rows[i].freq]

FadjOf(rows) == [i \in 1..Len(rows) |-> rows[i].fadj]

EnobOf(rows) == [i \in 1..Len(rows) |-> rows[i].enob2]

\* np.max of a series that is not empty
MaxOf(s) == CHOOSE v \in {s[i] : i \in DOMAIN s} : \A i \in DOMAIN s : s[i] <= v

\* the k-th smallest value of a series that is not empty, k from 0
Kth(s, k) ==
    CHOOSE v \in {s[i] : i \in DOMAIN s} :
        /\ Cardinality({i \in DOMAIN s : s[i] < v}) <= k
        /\ Cardinality({i \in DOMAIN s : s[i] <= v}) > k

\* Series.quantile(q10 / 10) of a series that is not empty, times ten: the
\* value at position q * (len - 1) of the sorted series, interpolated linearly
Quantile10(s, q10) ==
    LET pos == q10 * (Len(s) - 1)
        lo == pos \div 10
        hi == Min(lo + 1, Len(s) - 1)
    IN  10 * Kth(s, lo) + (pos % 10) * (Kth(s, hi) - Kth(s, lo))

\* OUTLIER_THRESHOLD = 0.8 (line 133), in tenths
OUTLIER_THRESHOLD == 8

\* AREA_QUANTILE = 0.1 (headers.py), in tenths
AREA_QUANTILE == 1

\* np.log(1e10) (line 156) is 33.2 ln(2): a log-frequency of the lattice is
\* at or below it exactly when it is at or below 33
LogFreq1e10 == 33

\* freq_for_pareto, foms_for_pareto (lines 157-160): the rows whose adjusted
\* FOMS is at or below the quantile
ForPareto(rows) ==
    LET q == Quantile10(FadjOf(rows), OUTLIER_THRESHOLD)
    IN  SelectSeq(rows, LAMBDA r : 10 * r.fadj <= q)

\* allow_interior_points = round(len(freq_for_pareto) * 0.05) (line 164)
InteriorPoints(n) == Round(n * 5, 100)

\* len(foms_max_by_enob) = math.ceil(np.max(ENOB) + 1) (lines 151-154)
TableLen(rows) == Ceil(MaxOf(EnobOf(rows)) + 2)

\* get_max_foms (lines 168-169): the index into foms_max_by_enob, round(enob)
BuildFomsIndex(r2) == Round(r2, 2)

\* the residual series a least-squares fit with an intercept can leave on n
\* rows: they sum to zero; low rows lie below the fitted line, the others above
AreaResiduals(n) ==
    {[i \in 1..n |-> IF i <= low THEN 0 - (n - low) * u ELSE low * u] :
        low \in {1, 2, 5} \cap (0..n), u \in {0, 1}}

\* ar_intercept -= ar_residual.quantile(1 - AREA_QUANTILE) (line 224), times ten
ShiftedIntercept10(fitted10, residual) ==
    fitted10 - Quantile10(residual, 10 - AREA_QUANTILE)

----------------------------------------------------------------------------
\* optimizer.py: the Model object
\*
\* Units.  The optimizer's log-scaled quantities (areas, energies, tech
\* nodes, frequencies, intercepts and offsets) are integer numbers of
\* ln(2) / 2, and a positive linear quantity is held by its logarithm in
\* that unit: math.log and math.exp convert between the two without loss.
\* Counts (channels, ADCs, shares) are powers of two.

\* Python's None, and a value that is not None
None == <<>>

Some(v) == <<v>>

\* a linear quantity given by a caller: None, 0, or exp(log * ln(2) / 2)
NoneV == [kind |-> "None", log |-> 0]

ZeroV == [kind |-> "zero", log |-> 0]

Lin(log) == [kind |-> "pos", log |-> log]

\* the power of two 2^k
Pow2(k) == Lin(2 * k)

\* the truth value Python gives a quantity: None and 0 are false
Truthy(v) == v.kind = "pos"

\* math.log(n) of a count that is a power of two, in units of ln(2) / 2
LogCount(n) == 2 * (CHOOSE k \in 0..8 : IPow(2, k) = n)

\* old/model.py model_from_pareto (lines 209-272): the model dict that the
\* Model object loads.  slope and icpt are the regression of the Pareto
\* group's energy residual on its area residual (the slope is asserted
\* negative, line 227), group holds the group's extreme residuals, param_fit
\* the design-parameter regressions and cons the ranges of the design
\* parameters.
model_from_pareto(slope, icpt, group, param_fit, cons) ==
    LET model_min_area ==
            Max(group.area.min, (icpt - group.enrg.max) \div (0 - slope))
        model_max_area ==
            Min(group.area.max, (icpt - group.enrg.min) \div (0 - slope))
    IN  [slope |-> slope, icpt |-> icpt,
         area |-> [min |-> model_min_area, max |-> model_max_area],
         enrg |-> [min |-> icpt + model_max_area * slope,
                   max |-> icpt + model_min_area * slope],
         design |-> param_fit,
         cons |-> cons]

\* Model.__init__ (lines 10-24): the object right after loading dict
NewModel(dict) ==
    [dict |-> dict, bits |-> None, tech |-> None, freq |-> None,
     min_area |-> None, max_area |-> None, min_energy |-> None,
     max_energy |-> None, icpt |-> None]

\* the offset of lines 26-44, for the coefficients c
Offset(c, o) ==
    c.enob * o.bits[1] + c.tech * o.tech[1] + c.freq * o.freq[1] + c.icpt

get_area_offset(o) == Offset(o.dict.design.area, o)

get_energy_offset(o) == Offset(o.dict.design.enrg, o)

\* lines 52-54: the assignments set_design_params makes before it checks
Assigned(o, bits, tech, freq) ==
    [o EXCEPT !.bits = IF bits # None THEN bits ELSE @,
              !.tech = IF tech.kind # "None" THEN Some(tech.log) ELSE @,
              !.freq = IF freq.kind # "None" THEN Some(freq.log) ELSE @]

Within(val, c) == c.min <= val /\ val <= c.max

\* faulty variant of RangeOk: every stored parameter checked, given or not
RangeOkAllStored(o, bits, tech, freq, allow) ==
    \/ allow
    \/ /\ o.bits # None => Within(o.bits[1], o.dict.cons.enob)
       /\ o.tech # None => Within(o.tech[1], o.dict.cons.tech)
       /\ o.freq # None => Within(o.freq[1], o.dict.cons.freq)

\* lines 57-68: the range assertions, made for the arguments that are given
RangeOk(o, bits, tech, freq, allow) ==
    \/ allow
    \/ /\ bits # None => Within(o.bits[1], o.dict.cons.enob)
       /\ tech.kind # "None" => Within(o.tech[1], o.dict.cons.tech)
       /\ freq.kind # "None" => Within(o.freq[1], o.dict.cons.freq)

\* lines 73-84: the bounds and the intercept for the stored parameters
Derived(o) ==
    [o EXCEPT !.min_area = Some(o.dict.area.min + get_area_offset(o)),
              !.max_area = Some(o.dict.area.max + get_area_offset(o)),
              !.min_energy = Some(o.dict.enrg.min + get_energy_offset(o)),
              !.max_energy = Some(o.dict.enrg.max + get_energy_offset(o)),
              !.icpt = Some(o.dict.icpt + get_energy_offset(o)
                                - get_area_offset(o) * o.dict.slope)]

\* Model.set_design_params (lines 46-84): the outcome and the object after it
set_design_params(o, bits, tech, freq, allow) ==
    LET stored == Assigned(o, bits, tech, freq)
    IN  IF ~RangeOk(stored, bits, tech, freq, allow)
        THEN [status |-> "AssertionError", obj |-> stored]
        ELSE IF stored.bits = None \/ stored.tech = None \/ stored.freq = None
        THEN [status |-> "ok", obj |-> stored]
        ELSE [status |-> "ok", obj |-> Derived(stored)]

\* Model.design_minmax_area (lines 86-94) for a per-ADC frequency
design_minmax_area(o, freq) ==
    LET set == set_design_params(o, None, NoneV, freq, FALSE)
    IN  IF set.status # "ok"
        THEN [status |-> set.status, obj |-> set.obj, lo |-> NoneV, hi |-> NoneV]
        ELSE IF set.obj.min_area = None
        THEN [status |-> "TypeError", obj |-> set.obj, lo |-> NoneV, hi |-> NoneV]
        ELSE [status |-> "ok", obj |-> set.obj,
              lo |-> Lin(set.obj.min_area[1]), hi |-> Lin(set.obj.max_area[1])]

\* faulty variant of IsClose: equal values not taken as close
IsCloseNever(a, b) == FALSE

\* math.isclose on the lattice
IsClose(a, b) == a = b

PickFailed(status, msg) ==
    [status |-> status, msg |-> msg, area |-> NoneV, energy |-> NoneV]

\* Model.pick_design (lines 96-128); it reads the object and leaves it alone
pick_design(o, area_budget, energy_budget) ==
    IF \/ Truthy(area_budget) /\ o.max_area = None
       \/ Truthy(energy_budget) /\ o.max_energy = None
    THEN PickFailed("TypeError", "min")
    ELSE IF o.min_area = None
    THEN PickFailed("AssertionError", "Set design parameters before picking ADCs")
    ELSE IF area_budget.kind = "None"
    THEN PickFailed("TypeError", "max")
    ELSE
        LET max_area == IF Truthy(area_budget)
                        THEN Min(o.max_area[1], area_budget.log) ELSE o.max_area[1]
            max_energy == IF Truthy(energy_budget)
                          THEN Min(o.max_energy[1], energy_budget.log)
                          ELSE o.max_energy[1]
            first_area == Min(max_area, Max(area_budget.log, o.min_area[1]))
            energy == Min(max_energy,
                          Max(o.icpt[1] + o.dict.slope * first_area, o.min_energy[1]))
            area == (o.icpt[1] - energy) \div (0 - o.dict.slope)
        IN  IF /\ area < max_area \/ IsClose(max_area, area)
               /\ o.min_area[1] < area \/ IsClose(o.min_area[1], area)
            THEN [status |-> "ok", msg |-> "", area |-> Lin(area), energy |-> Lin(energy)]
            ELSE PickFailed("AssertionError", "Design can not be realized")

----------------------------------------------------------------------------
\* optimizer.py: ADCRequest

\* faulty variant of SharingOk: a request with no sharing option let through
SharingOkLoose(zeros) == zeros >= 2

\* lines 167-170: exactly two of the three sharing options are 0
SharingOk(zeros) == zeros = 2

\* ADCRequest.__init__ (lines 132-170): whether both assertions pass
InitOk(a) ==
    /\ Truthy(a.latency) \/ Truthy(a.throughput)
    /\ SharingOk(Cardinality({i \in 1..3 :
            <<a.max_share_count, a.adc_per_channel, a.channel_per_adc>>[i] = 0}))

\* the request object: the arguments and the three result attributes
NewRequest(a) ==
    [args |-> a, area_per_channnel |-> NoneV, energy_per_op |-> NoneV,
     adc_count |-> None]

NoArgs ==
    [bits |-> 0, tech |-> NoneV, channel_count |-> 0, energy_area_tradeoff |-> 0,
     max_share_count |-> 0, adc_per_channel |-> 0, channel_per_adc |-> 0,
     latency |-> ZeroV, throughput |-> ZeroV, area_budget |-> NoneV,
     energy_budget |-> NoneV, allow_extrapolation |-> FALSE]

CeilDiv(a, b) == (a + b - 1) \div b

\* lines 181-183: the throughput asked of the ADCs
Throughput(a) ==
    IF Truthy(a.latency)
    THEN (IF Truthy(a.throughput)
          THEN Lin(Max(a.throughput.log, 0 - a.latency.log))
          ELSE Lin(0 - a.latency.log))
    ELSE a.throughput

\* lines 191-193
RECURSIVE ShareCandidates(_, _)
ShareCandidates(a, share) ==
    IF share > a.max_share_count THEN <<>>
    ELSE <<a.channel_count * share, CeilDiv(a.channel_count, share)>>
         \o ShareCandidates(a, share + 1)

\* lines 190-197: the list of ADC counts to try
n_adc_to_try(a) ==
    ShareCandidates(a, 1)
    \o (IF a.adc_per_channel # 0
        THEN <<a.channel_count * a.adc_per_channel>> ELSE <<>>)
    \o (IF a.channel_per_adc # 0
        THEN <<a.channel_count * a.channel_per_adc>> ELSE <<>>)

\* faulty variant of FreqRatio: the channels per ADC rounded down
FreqRatioFloor(a, n_adc) ==
    IF n_adc < a.channel_count
    THEN [num |-> a.channel_count \div n_adc, den |-> 1]
    ELSE [num |-> 1, den |-> n_adc \div a.channel_count]

\* freq(n_adc) (lines 199-202) as a multiple num / den of the throughput
FreqRatio(a, n_adc) ==
    IF n_adc < a.channel_count
    THEN [num |-> CeilDiv(a.channel_count, n_adc), den |-> 1]
    ELSE [num |-> 1, den |-> n_adc \div a.channel_count]

\* freq(n_adc) (lines 199-202)
freq(a, n_adc) ==
    Lin(Throughput(a).log + LogCount(FreqRatio(a, n_adc).num)
                          - LogCount(FreqRatio(a, n_adc).den))

\* faulty variant of TargetArea: the two weights exchanged
TargetAreaSwapped(min_area, max_area, w2) ==
    (w2 * min_area + (2 - w2) * max_area) \div 2

\* lines 218-221: the target area, for the tradeoff weight w2 / 2
TargetArea(min_area, max_area, w2) ==
    ((2 - w2) * min_area + w2 * max_area) \div 2

\* faulty variant of AfterCandidate: a candidate that fails ends the loop
AfterCandidateAbort(ok, i, len) == IF ok THEN i + 1 ELSE len + 1

\* lines 206-212, 224-234: the position of the loop after the candidate at
\* position i of len; 'except AssertionError: pass' lets the loop go on
AfterCandidate(ok, i, len) == i + 1

\* faulty variant of BetterEnergy: the higher energy kept
BetterEnergyHigher(energy, best) == best.kind = "None" \/ energy.log > best.log

\* line 229: self.energy_per_op is None or energy < self.energy_per_op
BetterEnergy(energy, best) == best.kind = "None" \/ energy.log < best.log

\* the orders in which a set can yield its elements
Orders(S) ==
    {order \in [1..Cardinality(S) -> S] :
        \A i, j \in 1..Cardinality(S) : order[i] = order[j] => i = j}

Elements(seq) == {seq[i] : i \in 1..Len(seq)}

----------------------------------------------------------------------------
\* old/wrapper.py: the estimator's two estimates

\* what an estimate gives its caller: the value returned, or the exception
\* that escapes
Returned(value, warned) == [status |-> "returned", value |-> value, warned |-> warned]

Escaped(exception) == [status |-> exception, value |-> NoneV, warned |-> FALSE]

----------------------------------------------------------------------------
\* The inputs of the optimizer

\* the Pareto group's extreme residuals: the box the tradeoff line crosses
ParetoGroups ==
    {[area |-> [min |-> 0 - 4, max |-> 4], enrg |-> [min |-> emin, max |-> 4]] :
        emin \in {0 - 4}}

\* the design-parameter regressions: area and energy offsets that grow with
\* the frequency or not, and an energy offset that grows with the resolution
ParamFits ==
    {[area |-> [enob |-> 0, tech |-> 0, freq |-> af, icpt |-> 0],
      enrg |-> [enob |-> 2, tech |-> 0, freq |-> ef, icpt |-> 0]] :
        af \in {0, 1}, ef \in {0, 1}}

\* the ranges of the design parameters in the Pareto group: 4 to 8 bits,
\* 16 to 64 nm, frequencies 2^0 or 2^2 to 2^4
DesignRanges ==
    {[enob |-> [min |-> 4, max |-> 8], tech |-> [min |-> 8, max |-> 12],
      freq |-> [min |-> fmin, max |-> 8]] : fmin \in {0, 4}}

ModelDicts ==
    {model_from_pareto(0 - 1, 0, group, fit, cons) :
        group \in ParetoGroups, fit \in ParamFits, cons \in DesignRanges}

\* the sharing options of a request: each of the three 0, 1 or 2
SharingOptions == {0, 1, 2} \X {0, 1, 2} \X {0, 1, 2}

\* the arguments of requests
RequestArgs ==
    {[bits |-> bits, tech |-> Pow2(5), channel_count |-> channels,
      energy_area_tradeoff |-> w2,
      max_share_count |-> sharing[1], adc_per_channel |-> sharing[2],
      channel_per_adc |-> sharing[3],
      latency |-> latency, throughput |-> throughput,
      area_budget |-> area_budget, energy_budget |-> energy_budget,
      allow_extrapolation |-> allow] :
        bits \in {3, 4}, channels \in {1, 2}, w2 \in {0, 1, 2},
        sharing \in SharingOptions,
        latency \in {ZeroV, Pow2(0 - 2)}, throughput \in {ZeroV, Pow2(6)},
        area_budget \in {NoneV, Pow2(0 - 3)},
        energy_budget \in {NoneV, Pow2(0), Pow2(6)},
        allow \in BOOLEAN}

\* the arguments the estimator is asked with
EstimatorArgs ==
    {a \in RequestArgs : a.energy_area_tradeoff = 1 /\ a.area_budget = NoneV}

NoCallAdc ==
    [fn |-> "none", status |-> "none", msg |-> "", args |-> NoArgs,
     bits |-> None, tech |-> NoneV, freq |-> NoneV, allow |-> FALSE,
     area_budget |-> NoneV, energy_budget |-> NoneV,
     area |-> NoneV, energy |-> NoneV,
     result |-> Returned(NoneV, FALSE)]

\* the locals of an optimize call: the list of candidates, the position of
\* the loop, min_area and max_area (None for the infinities), the target
\* area, the order in which the set of line 224 yields the candidates, and
\* the candidates that gave an area range and those that gave a design
NoRun ==
    [cand |-> <<>>, i |-> 0, min_area |-> None, max_area |-> None,
     target |-> None, order |-> <<>>, evaluated |-> {}, realized |-> {},
     f |-> [num |-> 1, den |-> 1]]

\* the optimize call that ended before the one in hand: how it ended, the
\* request after it, and the order in which the set of line 224 yielded its
\* candidates
NoEarlier ==
    [pc |-> "none", req |-> NewRequest(NoArgs), cand |-> <<>>, order |-> <<>>]

NoAdc ==
    [pc |-> "idle", via |-> "caller", earlier |-> NoEarlier,
     obj |-> NewModel(model_from_pareto(0 - 1, 0,
                [area |-> [min |-> 0 - 4, max |-> 4], enrg |-> [min |-> 0 - 4, max |-> 4]],
                [area |-> [enob |-> 0, tech |-> 0, freq |-> 0, icpt |-> 0],
                 enrg |-> [enob |-> 2, tech |-> 0, freq |-> 0, icpt |-> 0]],
                [enob |-> [min |-> 4, max |-> 8], tech |-> [min |-> 8, max |-> 12],
                 freq |-> [min |-> 0, max |-> 8]])),
     req |-> NewRequest(NoArgs), run |-> NoRun, calls |-> 0, call |-> NoCallAdc]

----------------------------------------------------------------------------
\* murmannsurvey.py: refresh_xls
\*
\* A file of the survey directory is named after the time it was saved
\* (SURVEY_NAME_FORMAT, line 29), so a name is held by the age of the file
\* in days and its extension; datetime.strptime gives the date back.

\* the day of the call
Now == MaxAge

Files == [xls : BOOLEAN, age : 0..MaxAge]

\* datetime.strptime(s[:-4], SURVEY_NAME_FORMAT) (line 95)
DateOf(file) == Now - file.age

\* os.listdir(SURVEY_DIR) (line 91): distinct names, in any order
Listings ==
    UNION {{l \in [1..n -> Files] : \A i, j \in 1..n : l[i] = l[j] => i = j} :
              n \in 0..MaxFiles}

\* lines 92-100: the loop over the listing from position i on; a later survey
\* file changes latest (line 97) and leaves latest_str
RECURSIVE ScanSaved(_, _, _, _)
ScanSaved(saved, i, latest, latest_str) ==
    IF i > Len(saved) THEN [latest |-> latest, latest_str |-> latest_str]
    ELSE IF ~saved[i].xls THEN ScanSaved(saved, i + 1, latest, latest_str)
    ELSE IF latest # None
    THEN ScanSaved(saved, i + 1, Some(Max(DateOf(saved[i]), latest[1])), latest_str)
    ELSE ScanSaved(saved, i + 1, Some(DateOf(saved[i])), Some(saved[i]))

\* line 107: not latest or latest < datetime.now() - timedelta(days=interval)
NeedsDownload(latest, interval) == latest = None \/ latest[1] < Now - interval

\* the file fetch_xls saves when the download succeeds (lines 76-80)
Downloaded == [xls |-> TRUE, age |-> 0]

\* refresh_xls(interval) (lines 87-112) on the listing saved; fetched is what
\* fetch_xls returns when it is called
refresh_xls(saved, interval, fetched) ==
    LET found == ScanSaved(saved, 1, None, None)
    IN  IF NeedsDownload(found.latest, interval)
        THEN [download |-> TRUE, files |-> fetched]
        ELSE [download |-> FALSE, files |-> <<found.latest_str[1]>>]

NoRefresh ==
    [pc |-> "idle", saved |-> <<>>, interval |-> 0, download |-> FALSE,
     files |-> <<>>]

----------------------------------------------------------------------------
\* The predictor as a state machine

NoOutcome ==
    [status |-> "none", stage |-> "none", value |-> NoVal,
     warnings |-> 0, idx |-> 0, line |-> 0, foms |-> 0]

NoCall == [fn |-> "none", allow |-> FALSE, out |-> NoOutcome]

NoPrev == [fn |-> "none", allow |-> FALSE, out |-> NoOutcome, params |-> <<>>]

\* the caller builds a parameter dict (model.py:268, 284)
NewQuery(dicts) ==
    /\ \E p \in dicts : params' = p
    /\ ret' = NoCall
    /\ UNCHANGED <<model, prev, pareto, build, adc, refresh>>

\* get_energy(params, model, allow_extrapolation)
CallGetEnergy ==
    /\ DESIGN_PARAMS \subseteq DOMAIN params
    /\ \E allow \in BOOLEAN :
         LET out == get_energy(params, model, allow)
         IN  /\ ret' = [fn |-> "get_energy", allow |-> allow, out |-> out]
             /\ params' = CallerParamsAfter(params)
             /\ model' = ModelAfterEnergy(model, out)
    /\ UNCHANGED <<prev, pareto, build, adc, refresh>>

\* get_area(params, model)
CallGetArea ==
    /\ ret' = [fn |-> "get_area", allow |-> FALSE, out |-> get_area(params, model)]
    /\ params' = CallerParamsAfter(params)
    /\ UNCHANGED <<model, prev, pareto, build, adc, refresh>>

\* the caller moves the result of the call it just made into prev
\* (model.py:274-275) and goes on
KeepResult ==
    /\ ret.fn # "none"
    /\ prev' = [fn |-> ret.fn, allow |-> ret.allow, out |-> ret.out, params |-> params]
    /\ ret' = NoCall
    /\ UNCHANGED <<model, params, pareto, build, adc, refresh>>

PredictInit(models, dicts) ==
    /\ model \in models
    /\ params \in dicts
    /\ ret = NoCall
    /\ prev = NoPrev
    /\ pareto = NoPareto
    /\ build = NoBuild
    /\ adc = NoAdc
    /\ refresh = NoRefresh

Init == PredictInit(Models, ParamSets)

Next ==
    \/ NewQuery(ParamSets)
    \/ CallGetEnergy
    \/ CallGetArea

Spec == Init /\ [][Next]_vars

SeqInit == PredictInit(SeqModels, SeqParamSets)

SeqNext ==
    \/ NewQuery(SeqParamSets)
    \/ CallGetEnergy
    \/ CallGetArea
    \/ KeepResult

SeqSpec == SeqInit /\ [][SeqNext]_vars

----------------------------------------------------------------------------
\* Properties of the predictor

EnergyCalled == ret.fn = "get_energy"

AreaCalled == ret.fn = "get_area"

AboveMax == params[FREQ] > model.freq_max

\* C1: a get_energy call with frequency above freq.max fails the range
\* assertion without extrapolation; with extrapolation it passes the range
\* check and, for a positive resolution, returns a value; a call with
\* frequency at or below freq.max (equality included) never fails the range
\* check, whatever the flag.
C1_RangeCheck ==
    EnergyCalled =>
        /\ (AboveMax /\ ~ret.allow) =>
               (ret.out.status = "AssertionError" /\ ret.out.stage = "range")
        /\ (AboveMax /\ ret.allow) =>
               /\ ret.out.stage # "range"
               /\ params[ENOB] > 0 => ret.out.status = "ok"
        /\ ~AboveMax => ret.out.stage # "range"

C1_Witness ==
    /\ EnergyCalled
    /\ AboveMax
    /\ ret.allow
    /\ ret.out.status = "ok"
    /\ VPos(ret.out.value)

\* the model's area-coefficient keys minus the intercept
AreaModelKeys == (DOMAIN model.area) \ {INTERCEPT}

\* C2 as stated: get_area fails whenever the query's key set is not exactly
\* the model's area-coefficient key set minus the intercept.
C2_ExactKeySet ==
    (AreaCalled /\ DOMAIN params # AreaModelKeys) =>
        ret.out.status = "AssertionError"

\* C2 amended: get_area fails exactly when a key of the model's area
\* coefficients (intercept aside) is missing from the query; a query with an
\* extra key the model does not have is accepted.
C2_MissingKeyOnly ==
    AreaCalled =>
        (ret.out.status = "AssertionError"
            <=> (\E k \in AreaModelKeys : k \notin DOMAIN params))

C2_Witness ==
    /\ AreaCalled
    /\ ret.out.status = "AssertionError"
    /\ ENRG \notin DOMAIN params

\* C3: a get_energy call that returns for a frequency above freq.max has
\* emitted a warning, and a call at or below freq.max emits none.
C3_NeverSilent ==
    EnergyCalled =>
        /\ (ret.out.status = "ok" /\ AboveMax) => ret.out.warnings >= 1
        /\ ~AboveMax => ret.out.warnings = 0

C3_Witness ==
    /\ EnergyCalled
    /\ ret.out.status = "ok"
    /\ AboveMax
    /\ ret.out.warnings = 1

\* C4: a call repeats the outcome of an earlier call of the same function
\* with the same parameters and flag, whatever calls were made in between.
C4_Idempotent ==
    (/\ ret.fn # "none"
     /\ prev.fn = ret.fn
     /\ prev.params = params
     /\ prev.allow = ret.allow) => ret.out = prev.out

C4_Witness ==
    /\ EnergyCalled
    /\ prev.fn = "get_energy"
    /\ prev.params = params
    /\ prev.allow = ret.allow
    /\ ret.out.status = "ok"
    /\ ret.out.foms < ret.out.line

\* C5: a call of get_energy or get_area, returning or failing, leaves the
\* caller's parameter dict (no intercept key added) and the model as they were.
C5_Frame ==
    [][(ret'.fn # "none") => (params' = params /\ model' = model)]_vars

C5_Witness ==
    /\ AreaCalled
    /\ ret.out.status = "AssertionError"
    /\ INTERCEPT \notin DOMAIN params

\* the least integer not below r2 / 2
CeilOfHalves(r2) == CHOOSE n \in (0 - 20)..20 : 2 * n >= r2 /\ 2 * (n - 1) < r2

Clamp(x, lo, hi) == IF x < lo THEN lo ELSE IF x > hi THEN hi ELSE x

\* C6: the FOM used by get_energy is min(intercept + slope * log-frequency,
\* max_by_enob[i]) with i = clamp(ceil(resolution), 0, len - 1), and i is an
\* index of the table for every resolution.
C6_CapIndex ==
    (EnergyCalled /\ ret.out.stage # "range") =>
        LET len == Len(model.max_by_enob)
            i   == Clamp(CeilOfHalves(params[ENOB]), 0, len - 1)
            ln  == model.foms_intercept + model.foms_freq * params[FREQ]
            cap == model.max_by_enob[i + 1]
        IN  /\ ret.out.idx = i
            /\ 0 <= ret.out.idx /\ ret.out.idx <= len - 1
            /\ ret.out.status # "IndexError"
            /\ ret.out.foms = (IF ln <= cap THEN ln ELSE cap)

C6_Witness ==
    /\ EnergyCalled
    /\ ret.out.status = "ok"
    /\ CeilOfHalves(params[ENOB]) > Len(model.max_by_enob) - 1
    /\ ret.out.idx = Len(model.max_by_enob) - 1
    /\ ret.out.foms < ret.out.line

\* prev and ret are returned get_energy calls on the same model that differ
\* in frequency alone, prev at the lower frequency
FrequencyRaised ==
    /\ EnergyCalled /\ prev.fn = "get_energy"
    /\ ret.out.status = "ok" /\ prev.out.status = "ok"
    /\ DOMAIN prev.params = DOMAIN params
    /\ \A k \in (DOMAIN params) \ {FREQ} : prev.params[k] = params[k]
    /\ prev.params[FREQ] < params[FREQ]

\* C7: if the per-resolution ceiling binds at f1 (the frequency line at f1 is
\* at or above max_by_enob for the resolution) and f1 < f2, the energy at f2
\* is not lower than the energy at f1.
C7_Monotone ==
    (/\ FrequencyRaised
     /\ prev.out.line >= model.max_by_enob[prev.out.idx + 1])
        => VLe(prev.out.value, ret.out.value)

C7_Witness ==
    /\ FrequencyRaised
    /\ prev.out.line >= model.max_by_enob[prev.out.idx + 1]
    /\ ret.out.line < model.max_by_enob[ret.out.idx + 1]
    /\ ~VLe(ret.out.value, prev.out.value)

\* a query with resolution >= 4 bits and frequency within the fitted range
InEnvelope ==
    /\ ret.fn # "none"
    /\ DESIGN_PARAMS \subseteq DOMAIN params
    /\ params[ENOB] >= 8
    /\ ~AboveMax

\* C8 as stated: for every query with resolution >= 4 and frequency <=
\* freq.max, get_energy and get_area return a strictly positive finite value.
C8_AlwaysPositive ==
    InEnvelope => (ret.out.status = "ok" /\ VPos(ret.out.value))

\* C8 amended: for such a query get_energy returns a strictly positive finite
\* value, and so does get_area when the query carries every area-coefficient
\* key of the model; when one is missing get_area fails its key assertion.
C8_PositiveWhenKeyed ==
    InEnvelope =>
        /\ EnergyCalled => (ret.out.status = "ok" /\ VPos(ret.out.value))
        /\ AreaCalled =>
             IF AreaModelKeys \subseteq DOMAIN params
             THEN ret.out.status = "ok" /\ VPos(ret.out.value)
             ELSE ret.out.status = "AssertionError"

C8_Witness ==
    /\ InEnvelope
    /\ AreaCalled
    /\ ret.out.status = "ok"
    /\ VPos(ret.out.value)
    /\ ret.out.value.e < 0

----------------------------------------------------------------------------
\* get_pareto as a state machine: one call

CallGetPareto ==
    /\ pareto.pc = "idle"
    /\ \E xy \in SeriesPairs, xpos \in BOOLEAN, ypos \in BOOLEAN, k \in 0..MaxInterior :
         LET out == get_pareto(xy[1], xy[2], xpos, ypos, k)
         IN  pareto' = [pc |-> "returned", x |-> xy[1], y |-> xy[2],
                        xpos |-> xpos, ypos |-> ypos, k |-> k,
                        status |-> out.status, chosen |-> out.chosen]
    /\ UNCHANGED <<predictVars, build, adc, refresh>>

IdlePredictor ==
    /\ model = MkModel(1, 0, 2, 0, 0)
    /\ params = ParamDict(DESIGN_PARAMS, 0, 1, 8, 1)
    /\ ret = NoCall
    /\ prev = NoPrev

ParetoInit ==
    /\ IdlePredictor
    /\ pareto = NoPareto
    /\ build = NoBuild
    /\ adc = NoAdc
    /\ refresh = NoRefresh

ParetoNext == CallGetPareto

ParetoSpec == ParetoInit /\ [][ParetoNext]_vars

\* the positions get_pareto returned
ChosenSet == {pareto.chosen[n] : n \in 1..Len(pareto.chosen)}

\* the other points that exceed point i in both dimensions
Dominators(i) ==
    {j \in (1..Len(pareto.x)) \ {i} :
        pareto.x[j] > pareto.x[i] /\ pareto.y[j] > pareto.y[i]}

DefaultParetoCall ==
    /\ pareto.pc = "returned"
    /\ pareto.status = "ok"
    /\ pareto.xpos /\ pareto.ypos

\* C9: get_pareto(x, y, allow_interior_points = k) keeps point i exactly when
\* fewer than k other points exceed it in both dimensions; so a point with
\* more than k such points is excluded and one with fewer than k is kept.
C9_ParetoRule ==
    DefaultParetoCall =>
        \A i \in 1..Len(pareto.x) :
            /\ (i \in ChosenSet) <=> (Cardinality(Dominators(i)) < pareto.k)
            /\ Cardinality(Dominators(i)) > pareto.k => i \notin ChosenSet

C9_Witness ==
    /\ DefaultParetoCall
    /\ pareto.k = 2
    /\ \E i \in 1..Len(pareto.x) : Cardinality(Dominators(i)) = 2 /\ i \notin ChosenSet
    /\ \E i \in 1..Len(pareto.x) : Cardinality(Dominators(i)) = 1 /\ i \in ChosenSet

----------------------------------------------------------------------------
\* build_model as a state machine: one run, step by step

BuildFail(err) == build' = [build EXCEPT !.pc = "failed", !.err = err]

BuildGoto(pc) == build' = [build EXCEPT !.pc = pc]

\* build_model(source_data, output_file) is entered
BuildStart ==
    /\ build.pc = "idle"
    /\ \E data \in Surveys, ok \in BOOLEAN :
         build' = [pc |-> "check_columns", data |-> data, output_ok |-> ok,
                   err |-> "none", files |-> {}, fit |-> NoFit]
    /\ UNCHANGED <<predictVars, pareto, adc, refresh>>

\* lines 119-120
CheckColumns ==
    /\ build.pc = "check_columns"
    /\ IF ColumnsOk(build.data)
       THEN BuildGoto("check_rows")
       ELSE BuildFail("Missing adc_data column")
    /\ UNCHANGED <<predictVars, pareto, adc, refresh>>

\* lines 121-125
CheckRows ==
    /\ build.pc = "check_rows"
    /\ IF RowsOk(build.data)
       THEN BuildGoto("fit_energy")
       ELSE BuildFail("Invalid value")
    /\ UNCHANGED <<predictVars, pareto, adc, refresh>>

\* a regression given no rows raises (sklearn: "Found array with 0 sample(s)
\* ... while a minimum of 1 is required by LinearRegression")
FitFail(line, fit) ==
    build' = [build EXCEPT !.pc = "failed", !.err = "Found array with 0 sample(s)",
                           !.fit = [fit EXCEPT !.line = line]]

\* lines 128-193: the log scaling and the energy fits.  The regressions of
\* lines 136, 147 and 166 raise when they are given no rows; get_pareto
\* (lines 161-165) leaves none when its allow_interior_points is 0.
FitEnergy ==
    /\ build.pc = "fit_energy"
    /\ LET rows == LogscaleRows(build.data)
           usable == DropNa(rows)
           kept == IF Len(usable) > 0 THEN ForPareto(usable) ELSE <<>>
           k == InteriorPoints(Len(kept))
           front == get_pareto(FreqOf(kept), FadjOf(kept), TRUE, TRUE, k)
           fitted == [build.fit EXCEPT !.usable = usable]
           framed == [fitted EXCEPT !.kept = kept, !.k = k, !.chosen = front.chosen,
                                    !.table_len = TableLen(usable),
                                    !.freq_max = LogFreq1e10]
       IN  IF Len(rows) = 0 THEN FitFail(136, build.fit)
           ELSE IF Len(usable) = 0 THEN FitFail(147, fitted)
           ELSE IF Len(front.chosen) = 0 THEN FitFail(166, framed)
           ELSE build' = [build EXCEPT
                    !.pc = "write_correlation",
                    !.fit = [framed EXCEPT
                        !.line = 193,
                        !.idx = [i \in 1..Len(usable) |->
                                    BuildFomsIndex(usable[i].enob2)]]]
    /\ UNCHANGED <<predictVars, pareto, adc, refresh>>

\* lines 194-197
WriteCorrelation ==
    /\ build.pc = "write_correlation"
    /\ build' = [build EXCEPT !.pc = "fit_area",
                              !.files = @ \cup {ENERGY_CORRELATION}]
    /\ UNCHANGED <<predictVars, pareto, adc, refresh>>

\* lines 198-239: the model dict and the area fit over the rows left after
\* dropna; the regression's intercept and residuals are those of a fit
FitArea ==
    /\ build.pc = "fit_area"
    /\ \E residual \in AreaResiduals(Len(build.fit.usable)), fitted10 \in {0, 10} :
         build' = [build EXCEPT
             !.pc = "dump",
             !.fit = [@ EXCEPT !.line = 239,
                               !.ar_residual = residual,
                               !.ar_fitted10 = fitted10,
                               !.ar_intercept10 = ShiftedIntercept10(fitted10, residual)]]
    /\ UNCHANGED <<predictVars, pareto, adc, refresh>>

\* lines 241-245: open(output_file, "w") and yaml.dump
DumpModel ==
    /\ build.pc = "dump"
    /\ IF build.output_ok
       THEN build' = [build EXCEPT !.pc = "done", !.files = @ \cup {OUTPUT_FILE}]
       ELSE BuildFail("cannot open output_file")
    /\ UNCHANGED <<predictVars, pareto, adc, refresh>>

BuildInit ==
    /\ IdlePredictor
    /\ pareto = NoPareto
    /\ build = NoBuild
    /\ adc = NoAdc
    /\ refresh = NoRefresh

BuildNext ==
    \/ BuildStart
    \/ CheckColumns
    \/ CheckRows
    \/ FitEnergy
    \/ WriteCorrelation
    \/ FitArea
    \/ DumpModel

BuildSpec == BuildInit /\ [][BuildNext]_vars

\* a required column is missing from the survey
MissingColumn == \E c \in ALL_PARAMS : c \notin build.data.columns

\* a row holds a non-numeric value in a required column
NonNumericCell ==
    \E i \in 1..Len(build.data.rows) :
        \E c \in ALL_PARAMS \cap build.data.columns : build.data.rows[i][c] = "str"

\* C10: when a required column is missing or a row holds a non-numeric value,
\* build_model never gets past its validation: it fails with the column or
\* the value assertion, and no file is created or modified by the run.
C10_InvalidSurveyWritesNothing ==
    ((MissingColumn \/ NonNumericCell) /\ build.pc # "idle") =>
        /\ build.pc \in {"check_columns", "check_rows", "failed"}
        /\ build.pc = "failed" =>
               build.err \in {"Missing adc_data column", "Invalid value"}
        /\ build.files = {}

C10_Witness ==
    /\ build.pc = "failed"
    /\ build.err = "Invalid value"
    /\ Len(build.data.rows) = 2
    /\ \A c \in ALL_PARAMS : build.data.rows[1][c] = "float"
    /\ build.data.rows[2][AREA] = "str"
    /\ build.files = {}

\* reachable: a run that the validation lets through writes both files
BuildWroteFiles ==
    /\ build.pc = "done"
    /\ build.files = {ENERGY_CORRELATION, OUTPUT_FILE}

----------------------------------------------------------------------------
\* Properties of build_model's fits

\* the survey passes the validation of lines 119-125
ValidSurvey == ColumnsOk(build.data) /\ RowsOk(build.data)

\* the rows of the survey that are left after dropna
UsableRows == DropNa(LogscaleRows(build.data))

\* the run is past the energy fits, or has failed
PastEnergyFit == build.pc \in {"write_correlation", "fit_area", "dump", "done", "failed"}

\* the run is past the area fit
PastAreaFit == build.pc \in {"dump", "done"}

\* C11: when fewer than 2 usable rows remain after validation and filtering,
\* build_model fails with an error that names the shortage of rows, and no
\* model is fitted or written from 0 or 1 rows.
C11_TooFewRowsRejected ==
    (ValidSurvey /\ Len(UsableRows) < 2 /\ PastEnergyFit) =>
        /\ build.pc = "failed"
        /\ build.err = "Insufficient adc_data points"
        /\ build.files = {}

\* reachable: a survey of one usable row is fitted twice (lines 136 and 147)
\* and the run dies in the regression on the empty frontier (line 166)
OneRowDiesInFrontierFit ==
    /\ ValidSurvey
    /\ Len(UsableRows) = 1
    /\ build.pc = "failed"
    /\ build.fit.line = 166
    /\ build.err = "Found array with 0 sample(s)"

\* C12: freq.max of the model build_model produces is the maximum
\* log-frequency among the rows of the fitting data, so that get_energy
\* without extrapolation passes exactly the frequencies up to that maximum.
C12_FreqMaxFromData ==
    build.pc = "done" =>
        LET seen == MaxOf(FreqOf(build.fit.usable))
        IN  /\ build.fit.freq_max = seen
            /\ \A f \in 0..(MaxLogFreq + 1) :
                   RangeCheckPasses(f, build.fit.freq_max, FALSE) <=> (f <= seen)

\* C18: for a survey row with resolution r, the max_by_enob index used in
\* build_model's predicted-energy step is the index get_energy uses for a
\* query with resolution r: ceil(r), capped to the table.
C18_SameLookup ==
    (PastEnergyFit /\ build.pc # "failed") =>
        \A i \in 1..Len(build.fit.usable) :
            build.fit.idx[i] =
                FomsMaxIndex(build.fit.usable[i].enob2, build.fit.table_len)

\* the rows that lie strictly below the shifted area line
RowsBelowAreaLine ==
    {i \in 1..Len(build.fit.ar_residual) :
        10 * build.fit.ar_residual[i]
            + (build.fit.ar_fitted10 - build.fit.ar_intercept10) < 0}

\* C19: the area fit moves the regression intercept to the 10th-percentile
\* residual, so that the line is a lower bound for about 90% of the rows: at
\* most a tenth of them, rounded up, lie below it.
C19_TenthPercentileShift ==
    PastAreaFit =>
        LET q10 == Quantile10(build.fit.ar_residual, AREA_QUANTILE)
        IN  /\ \/ build.fit.ar_intercept10 = build.fit.ar_fitted10 + q10
               \/ build.fit.ar_intercept10 = build.fit.ar_fitted10 - q10
            /\ 10 * Cardinality(RowsBelowAreaLine) <= Len(build.fit.ar_residual) + 9

----------------------------------------------------------------------------
\* The optimizer as a state machine: a Model object, loaded once, on which a
\* caller either makes a request and optimizes it, or asks the estimator, or
\* calls set_design_params and pick_design itself

\* ADCRequest(...) (lines 132-170), by a caller of the optimizer
Construct ==
    /\ adc.pc = "idle"
    /\ \E a \in RequestArgs :
         adc' = [adc EXCEPT
             !.pc = IF InitOk(a) THEN "ready" ELSE "rejected",
             !.via = "caller",
             !.req = IF InitOk(a) THEN NewRequest(a) ELSE @,
             !.call = [NoCallAdc EXCEPT
                          !.fn = "ADCRequest", !.args = a,
                          !.status = IF InitOk(a) THEN "ok" ELSE "AssertionError"]]
    /\ UNCHANGED <<predictVars, pareto, build, refresh>>

\* an estimate is entered (old/wrapper.py lines 107-114, 163-168) for an ADC
\* whose attributes give the request arguments a: adc_attr_to_request makes
\* the request, and an AssertionError of its is caught (lines 123-127,
\* 177-181): a warning is printed and 0 returned
EstimateEnter(fn) ==
    /\ adc.pc = "idle"
    /\ \E a \in EstimatorArgs :
         adc' = [adc EXCEPT
             !.pc = IF InitOk(a) THEN "ready" ELSE "estimated",
             !.via = fn,
             !.req = IF InitOk(a) THEN NewRequest(a) ELSE @,
             !.call = [NoCallAdc EXCEPT
                          !.fn = fn, !.args = a,
                          !.status = IF InitOk(a) THEN "none" ELSE "returned",
                          !.result = IF InitOk(a) THEN @ ELSE Returned(ZeroV, TRUE)]]
    /\ UNCHANGED <<predictVars, pareto, build, refresh>>

EstimateEnergy == EstimateEnter("estimate_energy")

EstimateArea == EstimateEnter("estimate_area")

\* optimize is entered (lines 177-197): the attributes are reset, bits and
\* tech are given to the Model, the candidates are listed
OptimizeStart ==
    /\ adc.pc = "ready"
    /\ LET a == adc.req.args
           first == set_design_params(adc.obj, Some(a.bits), a.tech, NoneV,
                                      a.allow_extrapolation)
       IN  adc' = [adc EXCEPT
               !.pc = IF first.status = "ok" THEN "range" ELSE "raised",
               !.obj = first.obj,
               !.req = NewRequest(a),
               !.run = [NoRun EXCEPT !.cand = n_adc_to_try(a), !.i = 1]]
    /\ UNCHANGED <<predictVars, pareto, build, refresh>>

\* one turn of the loop of lines 206-212
RangeStep ==
    /\ adc.pc = "range"
    /\ adc.run.i <= Len(adc.run.cand)
    /\ LET n == adc.run.cand[adc.run.i]
           got == design_minmax_area(adc.obj, freq(adc.req.args, n))
           lo == got.lo.log + LogCount(n)
           hi == got.hi.log + LogCount(n)
       IN  adc' = [adc EXCEPT
               !.obj = got.obj,
               !.run = IF got.status = "ok"
                       THEN [@ EXCEPT
                               !.i = AfterCandidate(TRUE, @, Len(adc.run.cand)),
                               !.min_area = IF @ = None THEN Some(lo)
                                            ELSE Some(Min(@[1], lo)),
                               !.max_area = IF @ = None THEN Some(hi)
                                            ELSE Some(Max(@[1], hi)),
                               !.evaluated = @ \cup {n}]
                       ELSE [@ EXCEPT
                               !.i = AfterCandidate(FALSE, @, Len(adc.run.cand))]]
    /\ UNCHANGED <<predictVars, pareto, build, refresh>>

\* lines 215-224: the assertion, the target area, and the set of candidates
Target ==
    /\ adc.pc = "range"
    /\ adc.run.i > Len(adc.run.cand)
    /\ IF adc.run.min_area = None
       THEN adc' = [adc EXCEPT !.pc = "raised"]
       ELSE \E order \in Orders(Elements(adc.run.cand)) :
              \* the order of a set is the same each time the same list is given
              /\ adc.earlier.cand = adc.run.cand => order = adc.earlier.order
              /\ adc' = [adc EXCEPT
                  !.pc = "select",
                  !.run = [@ EXCEPT
                      !.i = 1,
                      !.order = order,
                      !.target = Some(TargetArea(adc.run.min_area[1],
                                                 adc.run.max_area[1],
                                                 adc.req.args.energy_area_tradeoff))]]
    /\ UNCHANGED <<predictVars, pareto, build, refresh>>

\* one turn of the loop of lines 224-234
SelectStep ==
    /\ adc.pc = "select"
    /\ adc.run.i <= Len(adc.run.order)
    /\ LET a == adc.req.args
           n == adc.run.order[adc.run.i]
           set == set_design_params(adc.obj, None, NoneV, freq(a, n), FALSE)
           got == pick_design(set.obj, Lin(adc.run.target[1] - LogCount(n)),
                              a.energy_budget)
           realized == set.status = "ok" /\ got.status = "ok"
       IN  adc' = [adc EXCEPT
               !.obj = set.obj,
               !.req = IF realized /\ BetterEnergy(got.energy, adc.req.energy_per_op)
                       THEN [@ EXCEPT
                               !.area_per_channnel =
                                   Lin(got.area.log + LogCount(n)
                                       - LogCount(a.channel_count)),
                               !.energy_per_op = got.energy,
                               !.adc_count = Some(n)]
                       ELSE @,
               !.run = [@ EXCEPT !.i = AfterCandidate(realized, @, Len(adc.run.order)),
                                 !.realized = IF realized THEN @ \cup {n} ELSE @]]
    /\ UNCHANGED <<predictVars, pareto, build, refresh>>

\* optimize returns (after line 234)
OptimizeReturn ==
    /\ adc.pc = "select"
    /\ adc.run.i > Len(adc.run.order)
    /\ adc' = [adc EXCEPT !.pc = "optimized"]
    /\ UNCHANGED <<predictVars, pareto, build, refresh>>

\* estimate_energy after optimize (old/wrapper.py lines 115-127): an
\* AssertionError is caught; r.energy_per_op * 10 ** 12 comes before the
\* assertion on r.energy_per_op.  The value is the energy per operation,
\* which the estimator scales to pJ.
EstimateEnergyReturn ==
    /\ adc.via = "estimate_energy"
    /\ adc.pc \in {"optimized", "raised"}
    /\ LET result == IF adc.pc = "raised" THEN Returned(ZeroV, TRUE)
                     ELSE IF adc.req.energy_per_op.kind = "None"
                     THEN Escaped("TypeError")
                     ELSE Returned(adc.req.energy_per_op, FALSE)
       IN  adc' = [adc EXCEPT !.pc = "estimated",
                              !.call = [@ EXCEPT !.status = result.status,
                                                 !.result = result]]
    /\ UNCHANGED <<predictVars, pareto, build, refresh>>

\* estimate_area after optimize (old/wrapper.py lines 169-181).  The value is
\* the total area, area_per_channnel * channel_count, which the estimator
\* scales to um^2.
EstimateAreaReturn ==
    /\ adc.via = "estimate_area"
    /\ adc.pc \in {"optimized", "raised"}
    /\ LET result == IF adc.pc = "raised" \/ ~Truthy(adc.req.area_per_channnel)
                     THEN Returned(ZeroV, TRUE)
                     ELSE Returned(Lin(adc.req.area_per_channnel.log
                                       + LogCount(adc.req.args.channel_count)),
                                   FALSE)
       IN  adc' = [adc EXCEPT !.pc = "estimated",
                              !.call = [@ EXCEPT !.status = result.status,
                                                 !.result = result]]
    /\ UNCHANGED <<predictVars, pareto, build, refresh>>

\* model.set_design_params(bits, tech, freq, allow_extrapolation), called
\* directly (lines 46-84)
SetDesignParams ==
    /\ adc.pc \in {"idle", "set"}
    /\ adc.calls < MaxDirectCalls
    /\ \E bits \in {None, Some(3), Some(4)}, tech \in {NoneV, Pow2(5)},
          f \in {NoneV, Pow2(2), Pow2(6)}, allow \in BOOLEAN :
         LET out == set_design_params(adc.obj, bits, tech, f, allow)
         IN  adc' = [adc EXCEPT
                 !.pc = "set",
                 !.obj = out.obj,
                 !.calls = @ + 1,
                 !.call = [NoCallAdc EXCEPT
                              !.fn = "set_design_params", !.status = out.status,
                              !.bits = bits, !.tech = tech, !.freq = f,
                              !.allow = allow]]
    /\ UNCHANGED <<predictVars, pareto, build, refresh>>

\* model.pick_design(area_budget, energy_budget), called directly
\* (lines 96-128)
PickDesign ==
    /\ adc.pc \in {"idle", "set"}
    /\ \E area_budget \in {NoneV, ZeroV, Pow2(0 - 3), Pow2(0), Pow2(1), Pow2(4)},
          energy_budget \in {NoneV, Pow2(0), Pow2(4), Pow2(6)} :
         LET out == pick_design(adc.obj, area_budget, energy_budget)
         IN  adc' = [adc EXCEPT
                 !.pc = "picked",
                 !.call = [NoCallAdc EXCEPT
                              !.fn = "pick_design", !.status = out.status,
                              !.msg = out.msg,
                              !.area_budget = area_budget,
                              !.energy_budget = energy_budget,
                              !.area = out.area, !.energy = out.energy]]
    /\ UNCHANGED <<predictVars, pareto, build, refresh>>

\* Model(model_file) (lines 10-24) on a model file that model_from_pareto wrote
OptInit ==
    /\ IdlePredictor
    /\ pareto = NoPareto
    /\ build = NoBuild
    /\ \E dict \in ModelDicts : adc = [NoAdc EXCEPT !.obj = NewModel(dict)]
    /\ refresh = NoRefresh

OptNext ==
    \/ Construct
    \/ EstimateEnergy
    \/ EstimateArea
    \/ OptimizeStart
    \/ RangeStep
    \/ Target
    \/ SelectStep
    \/ OptimizeReturn
    \/ EstimateEnergyReturn
    \/ EstimateAreaReturn
    \/ SetDesignParams
    \/ PickDesign

OptSpec == OptInit /\ [][OptNext]_vars

----------------------------------------------------------------------------
\* optimize calls, one after the other, of requests that share a Model object

\* the model files and the requests of such calls
SharedDicts == {d \in ModelDicts : d.design.area.freq = 0 /\ d.design.enrg.freq = 1}

SharedArgs ==
    {a \in RequestArgs :
        /\ InitOk(a)
        /\ a.channel_count = 2
        /\ a.energy_area_tradeoff = 1
        /\ <<a.max_share_count, a.adc_per_channel, a.channel_per_adc>>
              \in {<<2, 0, 0>>, <<0, 1, 0>>}
        /\ <<a.latency, a.throughput>> \in {<<ZeroV, Pow2(6)>>, <<Pow2(0 - 2), ZeroV>>}
        /\ a.area_budget = NoneV
        /\ a.energy_budget \in {NoneV, Pow2(6)}
        /\ a.bits = 3 => ~a.allow_extrapolation}

\* the optimize call that has just ended
Ended ==
    [pc |-> adc.pc, req |-> adc.req,
     cand |-> IF adc.run.order # <<>> THEN adc.run.cand ELSE <<>>,
     order |-> adc.run.order]

\* ADCRequest(...) (lines 132-170): one more request for the same Model object
NextRequest ==
    /\ adc.pc \in {"idle", "optimized", "raised"}
    /\ \E a \in SharedArgs :
         adc' = [adc EXCEPT
             !.pc = "ready",
             !.earlier = IF adc.pc = "idle" THEN NoEarlier ELSE Ended,
             !.req = NewRequest(a),
             !.call = [NoCallAdc EXCEPT
                          !.fn = "ADCRequest", !.args = a, !.status = "ok"]]
    /\ UNCHANGED <<predictVars, pareto, build, refresh>>

\* optimize called once more on the request it was called on before
OptimizeAgain ==
    /\ adc.pc \in {"optimized", "raised"}
    /\ adc' = [adc EXCEPT !.pc = "ready", !.earlier = Ended]
    /\ UNCHANGED <<predictVars, pareto, build, refresh>>

SharedInit ==
    /\ IdlePredictor
    /\ pareto = NoPareto
    /\ build = NoBuild
    /\ \E dict \in SharedDicts : adc = [NoAdc EXCEPT !.obj = NewModel(dict)]
    /\ refresh = NoRefresh

SharedNext ==
    \/ NextRequest
    \/ OptimizeAgain
    \/ OptimizeStart
    \/ RangeStep
    \/ Target
    \/ SelectStep
    \/ OptimizeReturn

SharedSpec == SharedInit /\ [][SharedNext]_vars

----------------------------------------------------------------------------
\* The candidates of optimize and their frequencies, for channel counts and
\* sharing options that are not powers of two

\* the sharing options a request can name
SharingNames == {"max_share_count", "adc_per_channel", "channel_per_adc"}

\* the arguments of a request of channels channels that gives option the value k
SharingArgs(channels, option, k) ==
    [NoArgs EXCEPT
        !.channel_count = channels,
        !.max_share_count = IF option = "max_share_count" THEN k ELSE 0,
        !.adc_per_channel = IF option = "adc_per_channel" THEN k ELSE 0,
        !.channel_per_adc = IF option = "channel_per_adc" THEN k ELSE 0,
        !.throughput = Pow2(0)]

\* optimize lists its candidates (lines 189-197)
ListCandidates ==
    /\ adc.pc = "idle"
    /\ \E channels \in 1..MaxChannels, option \in SharingNames, k \in 1..MaxShare :
         LET a == SharingArgs(channels, option, k)
         IN  adc' = [adc EXCEPT
                 !.pc = "listed",
                 !.req = NewRequest(a),
                 !.run = [NoRun EXCEPT !.cand = n_adc_to_try(a), !.i = 0]]
    /\ UNCHANGED <<predictVars, pareto, build, refresh>>

\* freq(n) for the next candidate n (lines 199-202, called at lines 207, 226)
CandidateFreq ==
    /\ adc.pc = "listed"
    /\ adc.run.i < Len(adc.run.cand)
    /\ adc' = [adc EXCEPT
           !.run = [@ EXCEPT
               !.i = @ + 1,
               !.f = FreqRatio(adc.req.args, adc.run.cand[adc.run.i + 1])]]
    /\ UNCHANGED <<predictVars, pareto, build, refresh>>

ShareInit ==
    /\ IdlePredictor
    /\ pareto = NoPareto
    /\ build = NoBuild
    /\ adc = NoAdc
    /\ refresh = NoRefresh

ShareNext ==
    \/ ListCandidates
    \/ CandidateFreq

ShareSpec == ShareInit /\ [][ShareNext]_vars

----------------------------------------------------------------------------
\* refresh_xls as a state machine

\* refresh_xls(interval) (lines 87-112): the download of fetch_xls (lines
\* 53-84) saves a file or fails
RefreshXls ==
    /\ refresh.pc = "idle"
    /\ \E saved \in Listings, interval \in 0..MaxIntervalDays,
          fetched \in {<<>>, <<Downloaded>>} :
         LET out == refresh_xls(saved, interval, fetched)
         IN  refresh' = [pc |-> "returned", saved |-> saved, interval |-> interval,
                         download |-> out.download, files |-> out.files]
    /\ UNCHANGED <<predictVars, pareto, build, adc>>

RefreshInit ==
    /\ IdlePredictor
    /\ pareto = NoPareto
    /\ build = NoBuild
    /\ adc = NoAdc
    /\ refresh = NoRefresh

RefreshNext == RefreshXls

RefreshSpec == RefreshInit /\ [][RefreshNext]_vars

----------------------------------------------------------------------------
\* Properties of the optimizer

\* the arguments of the call in hand
Args == adc.call.args

\* the sharing options among max_share_count, adc_per_channel and
\* channel_per_adc that are nonzero
NonzeroSharing(a) ==
    Cardinality({i \in 1..3 :
        <<a.max_share_count, a.adc_per_channel, a.channel_per_adc>>[i] # 0})

\* an ADCRequest object exists: its constructor returned
RequestExists ==
    \/ adc.call.fn = "ADCRequest" /\ adc.call.status = "ok"
    \/ /\ adc.call.fn \in {"estimate_energy", "estimate_area"}
       /\ adc.pc \in {"ready", "range", "select", "optimized", "raised"}

\* C14: an ADCRequest is constructed exactly when one of the three sharing
\* options is nonzero and a latency or a throughput is given; with zero, two
\* or three nonzero sharing options the constructor fails.
C14_ConstructionGuard ==
    /\ RequestExists =>
          /\ NonzeroSharing(Args) = 1
          /\ Truthy(Args.latency) \/ Truthy(Args.throughput)
    /\ adc.call.fn = "ADCRequest" /\ NonzeroSharing(Args) # 1 =>
          adc.pc = "rejected" /\ adc.call.status = "AssertionError"
    /\ adc.call.fn = "ADCRequest" /\ NonzeroSharing(Args) = 1
          /\ (Truthy(Args.latency) \/ Truthy(Args.throughput)) =>
          adc.call.status = "ok"

\* the constructor called with no sharing option, and failed
NoSharingRejected ==
    /\ adc.call.fn = "ADCRequest"
    /\ NonzeroSharing(Args) = 0
    /\ Truthy(Args.throughput)
    /\ adc.pc = "rejected"

\* The candidates of a request taken one by one, each on a Model object of
\* its own that was given bits and tech only: what design_minmax_area and
\* pick_design give for a candidate, apart from the calls made before it.

\* the Model object loaded from dict d and given the bits and tech of a
WithBitsAndTech(d, a) ==
    set_design_params(NewModel(d), Some(a.bits), a.tech, NoneV,
                      a.allow_extrapolation)

\* the candidates whose frequency the model accepts
Evaluable(d, a) ==
    {n \in Elements(n_adc_to_try(a)) :
        design_minmax_area(WithBitsAndTech(d, a).obj, freq(a, n)).status = "ok"}

\* the total area range of candidate n, as logs
TotalArea(d, a, n) ==
    LET got == design_minmax_area(WithBitsAndTech(d, a).obj, freq(a, n))
    IN  [lo |-> got.lo.log + LogCount(n), hi |-> got.hi.log + LogCount(n)]

SetMin(S) == CHOOSE x \in S : \A y \in S : x <= y

SetMax(S) == CHOOSE x \in S : \A y \in S : x >= y

GlobalMinArea(d, a) == SetMin({TotalArea(d, a, n).lo : n \in Evaluable(d, a)})

GlobalMaxArea(d, a) == SetMax({TotalArea(d, a, n).hi : n \in Evaluable(d, a)})

\* the design of candidate n at its share of the target area
DesignAt(d, a, n, target) ==
    pick_design(
        set_design_params(WithBitsAndTech(d, a).obj, None, NoneV, freq(a, n), FALSE).obj,
        Lin(target - LogCount(n)), a.energy_budget)

\* the candidates for which a design can be realized
Feasible(d, a) ==
    IF WithBitsAndTech(d, a).status # "ok" \/ Evaluable(d, a) = {} THEN {}
    ELSE {n \in Evaluable(d, a) :
            DesignAt(d, a, n, TargetArea(GlobalMinArea(d, a), GlobalMaxArea(d, a),
                                         a.energy_area_tradeoff)).status = "ok"}

FeasibleEnergy(d, a, n) ==
    DesignAt(d, a, n, TargetArea(GlobalMinArea(d, a), GlobalMaxArea(d, a),
                                 a.energy_area_tradeoff)).energy.log

\* the three result attributes of the request are None
ResultsUnset ==
    /\ adc.req.adc_count = None
    /\ adc.req.energy_per_op = NoneV
    /\ adc.req.area_per_channnel = NoneV

\* C13: optimize returns with the adc_count of a feasible candidate of the
\* lowest energy among the feasible ones (the only one when there is one);
\* when no candidate is feasible it raises or returns, and in both cases
\* adc_count, energy_per_op and area_per_channnel are None.
C13_LowestEnergyFeasible ==
    LET d == adc.obj.dict
        a == adc.req.args
    IN  /\ adc.pc = "raised" => ResultsUnset /\ Feasible(d, a) = {}
        /\ adc.pc = "optimized" /\ Feasible(d, a) = {} => ResultsUnset
        /\ adc.pc = "optimized" /\ Feasible(d, a) # {} =>
              /\ adc.req.adc_count # None
              /\ adc.req.adc_count[1] \in Feasible(d, a)
              /\ adc.req.energy_per_op.kind = "pos"
              /\ adc.req.energy_per_op.log = FeasibleEnergy(d, a, adc.req.adc_count[1])
              /\ \A n \in Feasible(d, a) :
                    adc.req.energy_per_op.log <= FeasibleEnergy(d, a, n)

\* optimize returned where two feasible candidates differ in energy and the
\* one of higher energy came first
TwoFeasibleOfDifferentEnergy ==
    /\ adc.pc = "optimized"
    /\ \E i, j \in 1..Len(adc.run.order) :
          /\ i < j
          /\ {adc.run.order[i], adc.run.order[j]} \subseteq Feasible(adc.obj.dict, adc.req.args)
          /\ FeasibleEnergy(adc.obj.dict, adc.req.args, adc.run.order[i])
                > FeasibleEnergy(adc.obj.dict, adc.req.args, adc.run.order[j])
    /\ adc.req.adc_count # None

\* optimize returned with exactly one feasible candidate among several
OneFeasibleOfSeveral ==
    /\ adc.pc = "optimized"
    /\ Cardinality(Feasible(adc.obj.dict, adc.req.args)) = 1
    /\ Cardinality(Elements(adc.run.cand)) > 1

\* optimize returned with no feasible candidate
NoneFeasibleReturned ==
    /\ adc.pc = "optimized"
    /\ Feasible(adc.obj.dict, adc.req.args) = {}

\* the lowest energy candidate n can have: the min_energy of its Model object
LowestEnergy(d, a, n) ==
    set_design_params(WithBitsAndTech(d, a).obj, None, NoneV, freq(a, n), FALSE)
        .obj.min_energy[1]

\* the total area of the selected design, as a log
SelectedTotalArea ==
    adc.req.area_per_channnel.log + LogCount(adc.req.args.channel_count)

\* optimize has computed its target area
TargetKnown == adc.pc \in {"select", "optimized"}

\* C16: the target area lies between the smallest and the largest total area
\* that the evaluable candidates can have; it is the smallest for weight 0
\* and the largest for weight 1 (w2 is twice the weight).  A design selected
\* with weight 0 has the smallest total area, and one selected with weight 1
\* has the lowest energy any evaluable candidate can have.
C16_TargetInterpolates ==
    LET d == adc.obj.dict
        a == adc.req.args
        w2 == a.energy_area_tradeoff
    IN  /\ TargetKnown =>
              /\ GlobalMinArea(d, a) <= adc.run.target[1]
              /\ adc.run.target[1] <= GlobalMaxArea(d, a)
              /\ w2 = 0 => adc.run.target[1] = GlobalMinArea(d, a)
              /\ w2 = 2 => adc.run.target[1] = GlobalMaxArea(d, a)
              /\ 2 * adc.run.target[1] =
                    (2 - w2) * GlobalMinArea(d, a) + w2 * GlobalMaxArea(d, a)
        /\ adc.pc = "optimized" /\ adc.req.adc_count # None /\ w2 = 0 =>
              SelectedTotalArea = GlobalMinArea(d, a)
        /\ adc.pc = "optimized" /\ adc.req.adc_count # None /\ w2 = 2 =>
              adc.req.energy_per_op.log =
                  SetMin({LowestEnergy(d, a, n) : n \in Evaluable(d, a)})

\* a design selected with weight 0 where the candidates' areas differ
MinAreaSelected ==
    /\ adc.pc = "optimized"
    /\ adc.req.adc_count # None
    /\ adc.req.args.energy_area_tradeoff = 0
    /\ Cardinality(Evaluable(adc.obj.dict, adc.req.args)) > 1
    /\ GlobalMinArea(adc.obj.dict, adc.req.args) < GlobalMaxArea(adc.obj.dict, adc.req.args)

\* a design selected with weight 1 where the candidates' lowest energies differ
MinEnergySelected ==
    /\ adc.pc = "optimized"
    /\ adc.req.adc_count # None
    /\ adc.req.args.energy_area_tradeoff = 2
    /\ \E n, m \in Evaluable(adc.obj.dict, adc.req.args) :
          LowestEnergy(adc.obj.dict, adc.req.args, n)
              < LowestEnergy(adc.obj.dict, adc.req.args, m)

\* an estimate of the estimator has ended, for a request that was constructed
EstimateEnded ==
    /\ adc.pc = "estimated"
    /\ adc.call.fn \in {"estimate_energy", "estimate_area"}
    /\ InitOk(Args)

\* the estimate printed 'could not generate ADC' and returned 0
ReportedNoDesign == adc.call.result = Returned(ZeroV, TRUE)

\* C15: when optimize finds no realizable design for the request, because no
\* candidate frequency can be evaluated or because no candidate meets the
\* budgets, estimate_energy and estimate_area print the warning and return
\* 0; no exception escapes them.
C15_InfeasibleReturnsZero ==
    /\ EstimateEnded /\ Feasible(adc.obj.dict, Args) = {} => ReportedNoDesign
    /\ EstimateEnded => adc.call.result.status = "returned"

\* estimate_area does so, and estimate_energy does when optimize raises
InfeasibleAreaReturnsZero ==
    /\ EstimateEnded /\ Feasible(adc.obj.dict, Args) = {}
          /\ (adc.call.fn = "estimate_area" \/ Evaluable(adc.obj.dict, Args) = {}) =>
          ReportedNoDesign
    /\ EstimateEnded /\ adc.call.result.status # "returned" =>
          /\ adc.call.fn = "estimate_energy"
          /\ adc.call.result.status = "TypeError"
          /\ Evaluable(adc.obj.dict, Args) # {}
          /\ Feasible(adc.obj.dict, Args) = {}

\* estimate_energy ended with an exception
EnergyEstimateCrashed ==
    /\ EstimateEnded
    /\ adc.call.fn = "estimate_energy"
    /\ adc.call.result.status = "TypeError"

\* a call of optimize or of an estimate gave an energy or an area
GaveResult ==
    \/ adc.pc = "optimized" /\ ~ResultsUnset
    \/ adc.pc = "estimated" /\ adc.call.result.status = "returned"
          /\ Truthy(adc.call.result.value)

\* C17: a request with fewer than 4 bits gives no energy and no area: it is
\* rejected by the constructor or by optimize.
C17_BelowFourBitsRejected ==
    /\ adc.req.args.bits < 4 /\ adc.pc = "optimized" => ResultsUnset
    /\ adc.call.args.bits < 4 => ~GaveResult

\* without extrapolation the model's own range (4 to 8 bits here) rejects it
BelowRangeRejectedWithoutExtrapolation ==
    adc.req.args.bits < adc.obj.dict.cons.enob.min
        /\ ~adc.req.args.allow_extrapolation =>
        adc.pc \notin {"range", "select", "optimized"}

\* a request of 3 bits that optimize answered with a design
ThreeBitDesign ==
    /\ adc.pc = "optimized"
    /\ adc.req.args.bits = 3
    /\ adc.req.adc_count # None

\* the area and the energy that the call in hand returned, as logs
PickedArea == adc.call.area.log

PickedEnergy == adc.call.energy.log

\* the design the call in hand returned is on the tradeoff line and within
\* the bounds of the Model object and the budgets that were given
PickedWithinBounds ==
    /\ PickedEnergy = adc.obj.icpt[1] + adc.obj.dict.slope * PickedArea
    /\ adc.obj.min_area[1] <= PickedArea /\ PickedArea <= adc.obj.max_area[1]
    /\ Truthy(adc.call.area_budget) => PickedArea <= adc.call.area_budget.log
    /\ adc.obj.min_energy[1] <= PickedEnergy /\ PickedEnergy <= adc.obj.max_energy[1]
    /\ Truthy(adc.call.energy_budget) => PickedEnergy <= adc.call.energy_budget.log

\* pick_design was called on a Model object whose design parameters are set
PickedWithParams == adc.call.fn = "pick_design" /\ adc.obj.min_area # None

\* C20: on a Model object with its design parameters set (the slope is
\* negative), pick_design either returns an (area, energy) on the tradeoff
\* line, within the area and energy bounds and not above the budgets, or
\* fails with 'Design can not be realized'.
C20_PickDesignContract ==
    PickedWithParams =>
        IF adc.call.status = "ok" THEN PickedWithinBounds
        ELSE /\ adc.call.status = "AssertionError"
             /\ adc.call.msg = "Design can not be realized"

\* it does so whenever an area budget is given
PickDesignContractWithAreaBudget ==
    PickedWithParams /\ adc.call.area_budget.kind # "None" =>
        IF adc.call.status = "ok" THEN PickedWithinBounds
        ELSE /\ adc.call.status = "AssertionError"
             /\ adc.call.msg = "Design can not be realized"

\* pick_design called without an area budget on a Model object with its
\* design parameters set
PickedWithoutAreaBudget ==
    /\ PickedWithParams
    /\ adc.call.area_budget = NoneV
    /\ adc.call.status = "TypeError"

----------------------------------------------------------------------------
\* Properties of the candidates and their frequencies

\* the candidate whose frequency was computed last
Candidate == adc.run.cand[adc.run.i]

\* a frequency has been computed for a candidate
FreqComputed == adc.pc = "listed" /\ adc.run.i >= 1

\* C21: for channel_per_adc = k >= 2 the candidate is the ADC count
\* ceil(channel_count / k), less than the channel count, and its frequency is
\* the throughput times the number of channels one ADC serves.
C21_ChannelsPerAdcCandidate ==
    LET a == adc.req.args
        k == a.channel_per_adc
    IN  FreqComputed /\ k >= 2 /\ a.channel_count >= 2 =>
            /\ Candidate = CeilDiv(a.channel_count, k)
            /\ Candidate < a.channel_count
            /\ adc.run.f = [num |-> CeilDiv(a.channel_count, Candidate), den |-> 1]

\* what the code lists for channel_per_adc = k: channel_count * k ADCs, each
\* at the throughput divided by k
ChannelsPerAdcAsAdcsPerChannel ==
    LET a == adc.req.args
        k == a.channel_per_adc
    IN  FreqComputed /\ k >= 1 =>
            /\ adc.run.cand = <<a.channel_count * k>>
            /\ adc.run.f = [num |-> 1, den |-> k]

\* 3 channels with channel_per_adc = 2: 6 ADCs listed, at half the throughput
SixAdcsForThreeChannels ==
    /\ FreqComputed
    /\ adc.req.args.channel_count = 3
    /\ adc.req.args.channel_per_adc = 2
    /\ Candidate = 6
    /\ adc.run.f = [num |-> 1, den |-> 2]

\* C22: the n ADCs of a candidate, each at frequency f(n) = T * num / den,
\* have the capacity of the C channels, n * f(n) >= C * T; and with
\* max_share_count = M no candidate has more than M channels per ADC or more
\* than M ADCs per channel.
C22_CapacityAndShareBound ==
    LET a == adc.req.args
        C == a.channel_count
        M == a.max_share_count
    IN  FreqComputed =>
            /\ Candidate >= 1
            /\ Candidate * adc.run.f.num >= C * adc.run.f.den
            /\ M >= 1 => /\ CeilDiv(C, Candidate) <= M
                         /\ Candidate \div C <= M

\* a candidate of fewer ADCs than channels that does not divide them
UnevenShare ==
    /\ FreqComputed
    /\ adc.req.args.max_share_count >= 2
    /\ Candidate < adc.req.args.channel_count
    /\ adc.req.args.channel_count % Candidate # 0

----------------------------------------------------------------------------
\* Properties of optimize's use of the request's fields

\* C23: the request allows extrapolation, and optimize discards no candidate
\* for a resolution, technology or frequency outside the model's ranges:
\* every candidate gives an area range in the first pass, and optimize does
\* not raise for want of one.
C23_ExtrapolationKeepsCandidates ==
    adc.req.args.allow_extrapolation =>
        /\ TargetKnown => adc.run.evaluated = Elements(adc.run.cand)
        /\ adc.pc # "raised"

\* the resolution and the technology of such a request are let through
ExtrapolationKeepsBitsAndTech ==
    adc.req.args.allow_extrapolation /\ adc.pc = "raised" => adc.obj.freq # None

\* a request that allows extrapolation lost a candidate to the frequency range
CandidateLostToFreqRange ==
    /\ adc.req.args.allow_extrapolation
    /\ adc.pc = "optimized"
    /\ \E n \in Elements(adc.run.cand) \ adc.run.evaluated :
          ~Within(freq(adc.req.args, n).log, adc.obj.dict.cons.freq)

\* C24: the request gives an area budget per channel; a design that optimize
\* selects has area_per_channnel at or below it, and no design is selected
\* when no candidate can meet it.
C24_AreaBudgetHonoured ==
    adc.pc = "optimized" /\ Truthy(adc.req.args.area_budget)
        /\ adc.req.adc_count # None =>
        adc.req.area_per_channnel.log <= adc.req.args.area_budget.log

\* a design selected whose area per channel is above the request's budget
DesignAboveAreaBudget ==
    /\ adc.pc = "optimized"
    /\ Truthy(adc.req.args.area_budget)
    /\ adc.req.adc_count # None
    /\ adc.req.area_per_channnel.log > adc.req.args.area_budget.log

----------------------------------------------------------------------------
\* Properties of the Model object under direct calls

\* bits, tech and freq are all stored in the Model object o
AllSet(o) == o.bits # None /\ o.tech # None /\ o.freq # None

\* the bounds and the intercept of o are those of its stored parameters
DerivedCurrent(o) == AllSet(o) => o = Derived(o)

\* a step that ends a set_design_params call with a failed range check
FailedSetStep ==
    /\ adc' # adc
    /\ adc'.call.fn = "set_design_params"
    /\ adc'.call.status # "ok"

\* C25: a set_design_params call that fails a range check leaves the stored
\* bits, tech and freq as they were, and whenever all three are stored the
\* bounds and the intercept are the ones derived from them.
C25_ModelConsistent ==
    [][/\ FailedSetStep =>
             /\ adc'.obj.bits = adc.obj.bits
             /\ adc'.obj.tech = adc.obj.tech
             /\ adc'.obj.freq = adc.obj.freq
       /\ DerivedCurrent(adc'.obj)]_vars

\* after a call that passed its checks they are
ConsistentAfterSuccess ==
    adc.call.fn = "set_design_params" /\ adc.call.status = "ok" =>
        DerivedCurrent(adc.obj)

\* a failed call after a successful one: the frequency it was given is
\* stored, the bounds are those of the frequency before
StaleBounds ==
    /\ adc.call.fn = "set_design_params"
    /\ adc.call.status = "AssertionError"
    /\ AllSet(adc.obj)
    /\ adc.obj.min_area # None
    /\ adc.obj # Derived(adc.obj)

\* pick_design was called on a Model object that lacks one of bits, tech, freq
PickedBeforeParams == adc.call.fn = "pick_design" /\ ~AllSet(adc.obj)

\* C26: pick_design called before bits, tech and freq are all set fails with
\* the assertion 'Set design parameters before picking ADCs', whatever
\* budgets it is given, and returns no design.
C26_PickBeforeParamsAsserts ==
    PickedBeforeParams =>
        /\ adc.call.status = "AssertionError"
        /\ adc.call.msg = "Set design parameters before picking ADCs"
        /\ adc.call.area = NoneV /\ adc.call.energy = NoneV

\* it returns no design, and asserts when no budget is given
PickBeforeParamsFails ==
    PickedBeforeParams =>
        /\ adc.call.status # "ok"
        /\ adc.call.area = NoneV /\ adc.call.energy = NoneV
        /\ ~Truthy(adc.call.area_budget) /\ ~Truthy(adc.call.energy_budget) =>
              /\ adc.call.status = "AssertionError"
              /\ adc.call.msg = "Set design parameters before picking ADCs"

\* pick_design called with a budget on a Model object without parameters
PickedWithBudgetBeforeParams ==
    /\ PickedBeforeParams
    /\ Truthy(adc.call.area_budget)
    /\ adc.call.status = "TypeError"

----------------------------------------------------------------------------
\* Properties of optimize's two passes

\* C28: a candidate that cannot be evaluated or realized is passed over and
\* the candidates after it are tried: the area range is that of all
\* evaluable candidates, and optimize returns with every realizable
\* candidate realized.
C28_BadCandidateSkipped ==
    LET d == adc.obj.dict
        a == adc.req.args
    IN  /\ TargetKnown =>
              /\ adc.run.evaluated = Evaluable(d, a)
              /\ adc.run.min_area = Some(GlobalMinArea(d, a))
              /\ adc.run.max_area = Some(GlobalMaxArea(d, a))
        /\ adc.pc = "optimized" =>
              /\ adc.run.i = Len(adc.run.order) + 1
              /\ adc.run.realized = Feasible(d, a)

\* in both passes a candidate that failed came before one that did not
GoodAfterBad ==
    /\ adc.pc = "optimized"
    /\ \E i, j \in 1..Len(adc.run.cand) :
          /\ i < j
          /\ adc.run.cand[i] \notin adc.run.evaluated
          /\ adc.run.cand[j] \in adc.run.evaluated
    /\ \E i, j \in 1..Len(adc.run.order) :
          /\ i < j
          /\ adc.run.order[i] \in adc.run.evaluated \ adc.run.realized
          /\ adc.run.order[j] \in adc.run.realized

\* C29: on a model from model_from_pareto (negative slope, bounds on the
\* tradeoff line), when the first pass gave an area range and the request has
\* no energy budget, optimize returns with adc_count, energy_per_op and
\* area_per_channnel all set.
C29_DesignWithoutEnergyBudget ==
    /\ TargetKnown => adc.run.evaluated # {}
    /\ adc.pc = "optimized" /\ adc.req.args.energy_budget = NoneV =>
          /\ adc.req.adc_count # None
          /\ adc.req.energy_per_op.kind = "pos"
          /\ adc.req.area_per_channnel.kind = "pos"

\* a design selected without an energy budget although an evaluable
\* candidate could not be realized
DesignDespiteUnrealizable ==
    /\ adc.pc = "optimized"
    /\ adc.req.args.energy_budget = NoneV
    /\ adc.req.adc_count # None
    /\ adc.run.evaluated \ adc.run.realized # {}

----------------------------------------------------------------------------
\* Properties of optimize calls that share a Model object

\* the three result attributes of request r
Results(r) ==
    [adc_count |-> r.adc_count, energy_per_op |-> r.energy_per_op,
     area_per_channnel |-> r.area_per_channnel]

\* what optimize gives request a on a Model object just loaded from d, when
\* the set of line 224 yields the candidates in the given order: the first
\* of the feasible candidates of lowest energy
FreshResults(d, a, order) ==
    IF Feasible(d, a) = {}
    THEN Results(NewRequest(a))
    ELSE LET best == SetMin({FeasibleEnergy(d, a, n) : n \in Feasible(d, a)})
             at == SetMin({i \in 1..Len(order) :
                              /\ order[i] \in Feasible(d, a)
                              /\ FeasibleEnergy(d, a, order[i]) = best})
             n == order[at]
             got == DesignAt(d, a, n, TargetArea(GlobalMinArea(d, a),
                                                 GlobalMaxArea(d, a),
                                                 a.energy_area_tradeoff))
         IN  [adc_count |-> Some(n),
              energy_per_op |-> got.energy,
              area_per_channnel |-> Lin(got.area.log + LogCount(n)
                                        - LogCount(a.channel_count))]

\* the call in hand repeats the call before it
Repeated == adc.earlier.pc # "none" /\ adc.earlier.req.args = adc.req.args

\* C27: whatever optimize calls were made on the Model object before, a
\* request's adc_count, energy_per_op and area_per_channnel after optimize
\* are those the request gets on a Model object just loaded: all None, or
\* all of one candidate; and a repeated call ends as the call before it did,
\* with the same three values.
C27_IndependentOfEarlierCalls ==
    LET d == adc.obj.dict
        a == adc.req.args
    IN  /\ adc.pc = "optimized" =>
              Results(adc.req) = FreshResults(d, a, adc.run.order)
        /\ adc.pc = "raised" => ResultsUnset /\ Feasible(d, a) = {}
        /\ adc.pc \in {"optimized", "raised"} /\ Repeated =>
              /\ adc.pc = adc.earlier.pc
              /\ Results(adc.req) = Results(adc.earlier.req)

\* a design selected on a Model object that an earlier call, of a request
\* that failed, left with a resolution or a frequency outside the ranges
SelectedAfterFailedCall ==
    /\ adc.pc = "optimized"
    /\ adc.req.adc_count # None
    /\ adc.earlier.pc = "raised"
    /\ adc.earlier.req.args # adc.req.args

\* a call repeated with a design selected among several feasible candidates
RepeatedSelection ==
    /\ adc.pc = "optimized"
    /\ Repeated
    /\ adc.req.adc_count # None
    /\ Cardinality(Feasible(adc.obj.dict, adc.req.args)) > 1

----------------------------------------------------------------------------
\* Properties of refresh_xls

\* the saved survey files of the listing
SavedSurveys == {refresh.saved[i] : i \in {j \in 1..Len(refresh.saved) : refresh.saved[j].xls}}

\* the most recent of them
MostRecent == CHOOSE f \in SavedSurveys : \A g \in SavedSurveys : f.age <= g.age

\* a saved survey exists and the most recent is not older than the interval
FreshSurvey == SavedSurveys # {} /\ MostRecent.age <= refresh.interval

\* C30: with a saved survey whose most recent file is not older than
\* interval days, refresh_xls downloads nothing and returns the path of the
\* most recent saved survey, in whatever order the directory lists the
\* files; with no saved survey, or the most recent older than that, it
\* attempts a download.
C30_RefreshReturnsMostRecent ==
    refresh.pc = "returned" =>
        /\ FreshSurvey => ~refresh.download /\ refresh.files = <<MostRecent>>
        /\ ~FreshSurvey => refresh.download

\* the decision to download is as stated; the path returned is that of the
\* survey file the directory lists first
RefreshReturnsFirstListed ==
    refresh.pc = "returned" =>
        /\ refresh.download <=> ~FreshSurvey
        /\ ~refresh.download =>
              \E i \in 1..Len(refresh.saved) :
                  /\ refresh.files = <<refresh.saved[i]>>
                  /\ refresh.saved[i].xls
                  /\ \A j \in 1..(i - 1) : ~refresh.saved[j].xls

\* nothing downloaded, and the path of an older survey returned
OlderSurveyReturned ==
    /\ refresh.pc = "returned"
    /\ ~refresh.download
    /\ refresh.files # <<MostRecent>>

====
